---------------------------- MODULE Spec2Model ----------------------------
(***************************************************************************)
(* A model of the two extraction pipelines of fek17/pdf-data-extraction:   *)
(*   src/extract_hospital_data.py  (the directory variant) and             *)
(*   src/extract_sectionb_data.py  (the system/network variant).           *)
(*                                                                         *)
(* Text is modelled at the level of characters: a Python string is a       *)
(* sequence of one-character strings.  The code points outside ASCII that  *)
(* the code names are written as the atoms "ENDASH" (U+2013), "EMDASH"     *)
(* (U+2014), "LSQUO", "RSQUO", "LDQUO", "RDQUO", "NBSP", "COPY", "STAR",   *)
(* "BOX" and "UPARROW"; each stands for one character.                     *)
(* The regular expressions of the code are values of a small backtracking  *)
(* matcher (below) that tries alternatives in the order Python's re does,  *)
(* so that greedy and lazy quantifiers pick the match Python picks.        *)
(***************************************************************************)
EXTENDS Integers, Sequences, FiniteSets, TLC

-----------------------------------------------------------------------------
(* Characters and Python's str helpers                                     *)

Digit == {"0", "1", "2", "3", "4", "5", "6", "7", "8", "9"}
Upper == {"A", "B", "C", "D", "E", "F", "G", "H", "I", "J", "K", "L", "M",
          "N", "O", "P", "Q", "R", "S", "T", "U", "V", "W", "X", "Y", "Z"}
Lower == {"a", "b", "c", "d", "e", "f", "g", "h", "i", "j", "k", "l", "m",
          "n", "o", "p", "q", "r", "s", "t", "u", "v", "w", "x", "y", "z"}
\* \s of a str pattern, and the characters str.strip() removes
Space == {" ", "\t", "\n", "\r", "\f", "NBSP"}

\* s[a:b] of Python, with 0 <= a and b <= len(s)
Slice(s, a, b) == IF b <= a THEN <<>> ELSE SubSeq(s, a + 1, b)

\* s.startswith(p) at offset i
HasAt(s, p, i) ==
    /\ i + Len(p) <= Len(s)
    /\ \A j \in 1..Len(p) : s[i + j] = p[j]

StartsWith(s, p) == HasAt(s, p, 0)

EndsWith(s, p) == Len(p) <= Len(s) /\ HasAt(s, p, Len(s) - Len(p))

\* p in s
Contains(s, p) == \E i \in 0..(Len(s) - Len(p)) : HasAt(s, p, i)

\* s.find(p), -1 when absent
Find(s, p) ==
    IF Contains(s, p)
    THEN CHOOSE i \in 0..(Len(s) - Len(p)) :
            HasAt(s, p, i) /\ \A j \in 0..(i - 1) : ~HasAt(s, p, j)
    ELSE -1

SetMin(S) == CHOOSE x \in S : \A y \in S : x <= y
SetMax(S) == CHOOSE x \in S : \A y \in S : x >= y

\* the positions of s that hold a character outside set
Outside(s, set) == {i \in 1..Len(s) : s[i] \notin set}

LStripSet(s, set) ==
    IF Outside(s, set) = {} THEN <<>>
    ELSE SubSeq(s, SetMin(Outside(s, set)), Len(s))

RStripSet(s, set) ==
    IF Outside(s, set) = {} THEN <<>>
    ELSE SubSeq(s, 1, SetMax(Outside(s, set)))

\* s.strip()
Strip(s) == RStripSet(LStripSet(s, Space), Space)

\* s.rstrip(chars)
RStrip(s, set) == RStripSet(s, set)

\* s.replace(c, d) for single characters c and d
ReplaceChar(s, c, d) == [i \in 1..Len(s) |-> IF s[i] = c THEN d ELSE s[i]]

\* s.split(sep) for a single character sep: always at least one part
Split(s, sep) ==
    LET at == {i \in 1..Len(s) : s[i] = sep}
        \* the position of the k-th separator; 0 and Len(s) + 1 close the ends
        pos(k) == IF k = 0 THEN 0
                  ELSE IF k > Cardinality(at) THEN Len(s) + 1
                  ELSE CHOOSE i \in at :
                          Cardinality({j \in at : j < i}) = k - 1
    IN  [k \in 1..(Cardinality(at) + 1) |-> Slice(s, pos(k - 1), pos(k) - 1)]

-----------------------------------------------------------------------------
(* The regular-expression matcher.  A pattern is a sequence of pieces; the *)
(* result of a match is the sequence b of offsets with b[1] the start of   *)
(* the match and b[k+1] the end of piece k.                                *)

Lit(t) == [k |-> "lit", t |-> t]
\* a character class repeated min..max times (max < 0: unbounded)
Cls(set, neg, min, max, lazy) ==
    [k |-> "cls", set |-> set, neg |-> neg, min |-> min, max |-> max,
     lazy |-> lazy]
One(set) == Cls(set, FALSE, 1, 1, FALSE)
Plus(set) == Cls(set, FALSE, 1, -1, FALSE)
Many(set) == Cls(set, FALSE, 0, -1, FALSE)
NotPlus(set) == Cls(set, TRUE, 1, -1, FALSE)
NotMany(set) == Cls(set, TRUE, 0, -1, FALSE)
NotPlusLazy(set) == Cls(set, TRUE, 1, -1, TRUE)
NotManyLazy(set) == Cls(set, TRUE, 0, -1, TRUE)
Exactly(set, n) == Cls(set, FALSE, n, n, FALSE)
Bol == [k |-> "bol"]
Eol == [k |-> "eol"]
\* (?:a|b|...) : alts is a sequence of patterns
Alt(alts) == [k |-> "alt", alts |-> alts]
\* (?:sub)?
Opt(sub) == [k |-> "opt", sub |-> sub]
\* (?:sub)*
Star(sub) == [k |-> "star", sub |-> sub]

NoMatch == [ok |-> FALSE, b |-> <<>>]

InCls(c, p) == IF p.neg THEN c \notin p.set ELSE c \in p.set

\* how many characters from offset i on are in the class of p, at most p.max
RunLen(p, s, i) ==
    LET rest == Len(s) - i
        lim == IF p.max < 0 \/ rest < p.max THEN rest ELSE p.max
        bad == {n \in 1..lim : ~InCls(s[i + n], p)}
    IN  IF bad = {} THEN lim ELSE SetMin(bad) - 1

\* $ of Python: the end of the string, or just before a final newline
AtEol(s, i) == i = Len(s) \/ (i = Len(s) - 1 /\ s[Len(s)] = "\n")

RECURSIVE Ends(_, _, _)
RECURSIVE AllEnds(_, _, _, _)
RECURSIVE AllEndsOver(_, _, _, _, _, _)
RECURSIVE AltEnds(_, _, _, _)
RECURSIVE StarEnds(_, _, _)
RECURSIVE StarOver(_, _, _, _)

\* the offsets at which piece p can end when it starts at i, best first
Ends(p, s, i) ==
    CASE p.k = "lit" -> IF HasAt(s, p.t, i) THEN <<i + Len(p.t)>> ELSE <<>>
      [] p.k = "cls" ->
            LET run == RunLen(p, s, i)
            IN  IF run < p.min THEN <<>>
                ELSE IF p.lazy
                     THEN [j \in 1..(run - p.min + 1) |-> i + p.min + j - 1]
                     ELSE [j \in 1..(run - p.min + 1) |-> i + run - j + 1]
      [] p.k = "bol" -> IF i = 0 THEN <<i>> ELSE <<>>
      [] p.k = "eol" -> IF AtEol(s, i) THEN <<i>> ELSE <<>>
      [] p.k = "alt" -> AltEnds(p.alts, 1, s, i)
      [] p.k = "opt" -> AllEnds(p.sub, 1, s, i) \o <<i>>
      [] p.k = "star" -> StarEnds(p.sub, s, i)

\* the offsets at which ps[k..] can end when it starts at i, best first
AllEnds(ps, k, s, i) ==
    IF k > Len(ps) THEN <<i>>
    ELSE LET cands == Ends(ps[k], s, i)
         IN  AllEndsOver(ps, k, s, cands, 1, Len(cands))

\* over the candidates lo..hi, halving so that the nesting stays shallow
AllEndsOver(ps, k, s, cands, lo, hi) ==
    IF lo > hi THEN <<>>
    ELSE IF lo = hi THEN AllEnds(ps, k + 1, s, cands[lo])
    ELSE LET mid == (lo + hi) \div 2
         IN  AllEndsOver(ps, k, s, cands, lo, mid)
                \o AllEndsOver(ps, k, s, cands, mid + 1, hi)

AltEnds(alts, a, s, i) ==
    IF a > Len(alts) THEN <<>>
    ELSE AllEnds(alts[a], 1, s, i) \o AltEnds(alts, a + 1, s, i)

StarEnds(sub, s, i) ==
    StarOver(sub, s, SelectSeq(AllEnds(sub, 1, s, i), LAMBDA e : e > i), 1)
        \o <<i>>

StarOver(sub, s, cands, j) ==
    IF j > Len(cands) THEN <<>>
    ELSE StarEnds(sub, s, cands[j]) \o StarOver(sub, s, cands, j + 1)

RECURSIVE MatchFrom(_, _, _, _)
RECURSIVE MatchOver(_, _, _, _, _, _)

\* the first match, in Python's order, of ps[k..] starting at offset i
MatchFrom(ps, k, s, i) ==
    IF k > Len(ps) THEN [ok |-> TRUE, b |-> <<>>]
    ELSE LET cands == Ends(ps[k], s, i)
         IN  MatchOver(ps, k, s, cands, 1, Len(cands))

\* the first candidate of lo..hi from which the rest matches
MatchOver(ps, k, s, cands, lo, hi) ==
    IF lo > hi THEN NoMatch
    ELSE IF lo = hi
    THEN LET r == MatchFrom(ps, k + 1, s, cands[lo])
         IN  IF r.ok THEN [ok |-> TRUE, b |-> <<cands[lo]>> \o r.b]
             ELSE NoMatch
    ELSE LET mid == (lo + hi) \div 2
             r == MatchOver(ps, k, s, cands, lo, mid)
         IN  IF r.ok THEN r ELSE MatchOver(ps, k, s, cands, mid + 1, hi)

\* the match of ps at offset i, with its start
MatchAt(ps, s, i) ==
    LET r == MatchFrom(ps, 1, s, i)
    IN  IF r.ok THEN [ok |-> TRUE, b |-> <<i>> \o r.b] ELSE NoMatch

\* re.match(ps, s)
ReMatch(ps, s) == MatchAt(ps, s, 0)

\* the leftmost match that starts at an offset of lo..hi
RECURSIVE SearchIn(_, _, _, _)
SearchIn(ps, s, lo, hi) ==
    IF lo > hi THEN NoMatch
    ELSE IF lo = hi THEN MatchAt(ps, s, lo)
    ELSE LET mid == (lo + hi) \div 2
             r == SearchIn(ps, s, lo, mid)
         IN  IF r.ok THEN r ELSE SearchIn(ps, s, mid + 1, hi)

\* re.search(ps, s)
ReSearch(ps, s) == SearchIn(ps, s, 0, Len(s))

\* the text matched by pieces from..to of a successful match m
Grp(s, m, from, to) == Slice(s, m.b[from], m.b[to + 1])
MStart(m) == m.b[1]
MEnd(m) == m.b[Len(m.b)]

\* re.split(ps, s)[0]: the text before the first non-empty match
SplitFirst(ps, s) ==
    LET m == ReSearch(ps, s)
    IN  IF m.ok THEN Slice(s, 0, MStart(m)) ELSE s

-----------------------------------------------------------------------------
(* The state vocabulary                                                    *)

\* STATE_ABBREVS of extract_sectionb_data.py, in its order: <<name, abbrev>>
STATE_ABBREVS ==
    <<
      <<<<"A", "L", "A", "B", "A", "M", "A">>,
        <<"A", "L">>>>,
      <<<<"A", "L", "A", "S", "K", "A">>,
        <<"A", "K">>>>,
      <<<<"A", "R", "I", "Z", "O", "N", "A">>,
        <<"A", "Z">>>>,
      <<<<"A", "R", "K", "A", "N", "S", "A", "S">>,
        <<"A", "R">>>>,
      <<<<"C", "A", "L", "I", "F", "O", "R", "N", "I", "A">>,
        <<"C", "A">>>>,
      <<<<"C", "O", "L", "O", "R", "A", "D", "O">>,
        <<"C", "O">>>>,
      <<<<"C", "O", "N", "N", "E", "C", "T", "I", "C", "U", "T">>,
        <<"C", "T">>>>,
      <<<<"D", "E", "L", "A", "W", "A", "R", "E">>,
        <<"D", "E">>>>,
      <<<<"F", "L", "O", "R", "I", "D", "A">>,
        <<"F", "L">>>>,
      <<<<"G", "E", "O", "R", "G", "I", "A">>,
        <<"G", "A">>>>,
      <<<<"H", "A", "W", "A", "I", "I">>,
        <<"H", "I">>>>,
      <<<<"I", "D", "A", "H", "O">>,
        <<"I", "D">>>>,
      <<<<"I", "L", "L", "I", "N", "O", "I", "S">>,
        <<"I", "L">>>>,
      <<<<"I", "N", "D", "I", "A", "N", "A">>,
        <<"I", "N">>>>,
      <<<<"I", "O", "W", "A">>,
        <<"I", "A">>>>,
      <<<<"K", "A", "N", "S", "A", "S">>,
        <<"K", "S">>>>,
      <<<<"K", "E", "N", "T", "U", "C", "K", "Y">>,
        <<"K", "Y">>>>,
      <<<<"L", "O", "U", "I", "S", "I", "A", "N", "A">>,
        <<"L", "A">>>>,
      <<<<"M", "A", "I", "N", "E">>,
        <<"M", "E">>>>,
      <<<<"M", "A", "R", "Y", "L", "A", "N", "D">>,
        <<"M", "D">>>>,
      <<<<"M", "A", "S", "S", "A", "C", "H", "U", "S", "E", "T", "T", "S">>,
        <<"M", "A">>>>,
      <<<<"M", "I", "C", "H", "I", "G", "A", "N">>,
        <<"M", "I">>>>,
      <<<<"M", "I", "N", "N", "E", "S", "O", "T", "A">>,
        <<"M", "N">>>>,
      <<<<"M", "I", "S", "S", "I", "S", "S", "I", "P", "P", "I">>,
        <<"M", "S">>>>,
      <<<<"M", "I", "S", "S", "O", "U", "R", "I">>,
        <<"M", "O">>>>,
      <<<<"M", "O", "N", "T", "A", "N", "A">>,
        <<"M", "T">>>>,
      <<<<"N", "E", "B", "R", "A", "S", "K", "A">>,
        <<"N", "E">>>>,
      <<<<"N", "E", "V", "A", "D", "A">>,
        <<"N", "V">>>>,
      <<<<"N", "E", "W", " ", "H", "A", "M", "P", "S", "H", "I", "R", "E">>,
        <<"N", "H">>>>,
      <<<<"N", "E", "W", " ", "J", "E", "R", "S", "E", "Y">>,
        <<"N", "J">>>>,
      <<<<"N", "E", "W", " ", "M", "E", "X", "I", "C", "O">>,
        <<"N", "M">>>>,
      <<<<"N", "E", "W", " ", "Y", "O", "R", "K">>,
        <<"N", "Y">>>>,
      <<<<"N", "O", "R", "T", "H", " ", "C", "A", "R", "O", "L", "I", "N", "A">>,
        <<"N", "C">>>>,
      <<<<"N", "O", "R", "T", "H", " ", "D", "A", "K", "O", "T", "A">>,
        <<"N", "D">>>>,
      <<<<"O", "H", "I", "O">>,
        <<"O", "H">>>>,
      <<<<"O", "K", "L", "A", "H", "O", "M", "A">>,
        <<"O", "K">>>>,
      <<<<"O", "R", "E", "G", "O", "N">>,
        <<"O", "R">>>>,
      <<<<"P", "E", "N", "N", "S", "Y", "L", "V", "A", "N", "I", "A">>,
        <<"P", "A">>>>,
      <<<<"R", "H", "O", "D", "E", " ", "I", "S", "L", "A", "N", "D">>,
        <<"R", "I">>>>,
      <<<<"S", "O", "U", "T", "H", " ", "C", "A", "R", "O", "L", "I", "N", "A">>,
        <<"S", "C">>>>,
      <<<<"S", "O", "U", "T", "H", " ", "D", "A", "K", "O", "T", "A">>,
        <<"S", "D">>>>,
      <<<<"T", "E", "N", "N", "E", "S", "S", "E", "E">>,
        <<"T", "N">>>>,
      <<<<"T", "E", "X", "A", "S">>,
        <<"T", "X">>>>,
      <<<<"U", "T", "A", "H">>,
        <<"U", "T">>>>,
      <<<<"V", "E", "R", "M", "O", "N", "T">>,
        <<"V", "T">>>>,
      <<<<"V", "I", "R", "G", "I", "N", "I", "A">>,
        <<"V", "A">>>>,
      <<<<"W", "A", "S", "H", "I", "N", "G", "T", "O", "N">>,
        <<"W", "A">>>>,
      <<<<"W", "E", "S", "T", " ", "V", "I", "R", "G", "I", "N", "I", "A">>,
        <<"W", "V">>>>,
      <<<<"W", "I", "S", "C", "O", "N", "S", "I", "N">>,
        <<"W", "I">>>>,
      <<<<"W", "Y", "O", "M", "I", "N", "G">>,
        <<"W", "Y">>>>,
      <<<<"D", "I", "S", "T", "R", "I", "C", "T", " ", "O", "F", " ", "C", "O", "L", "U", "M", "B", "I", "A">>,
        <<"D", "C">>>>,
      <<<<"P", "U", "E", "R", "T", "O", " ", "R", "I", "C", "O">>,
        <<"P", "R">>>>,
      <<<<"A", "M", "E", "R", "I", "C", "A", "N", " ", "S", "A", "M", "O", "A">>,
        <<"A", "S">>>>,
      <<<<"G", "U", "A", "M">>,
        <<"G", "U">>>>,
      <<<<"N", "O", "R", "T", "H", "E", "R", "N", " ", "M", "A", "R", "I", "A", "N", "A", " ", "I", "S", "L", "A", "N", "D", "S">>,
        <<"M", "P">>>>,
      <<<<"V", "I", "R", "G", "I", "N", " ", "I", "S", "L", "A", "N", "D", "S">>,
        <<"V", "I">>>>
    >>

\* the 50 names of the state-header alternation of extract_hospital_data.py
\* (lines 201 and 285): the first 50 names of the table, in the same order
NumDirectoryStates == 50
DirectoryStates == [i \in 1..NumDirectoryStates |-> STATE_ABBREVS[i][1]]

-----------------------------------------------------------------------------
(* Directory variant: src/extract_hospital_data.py                         *)

\* dataclass Hospital: every field defaults to the empty string
Hospital ==
    [name |-> <<>>, medicare_provider_number |-> <<>>, address |-> <<>>,
     city |-> <<>>, county |-> <<>>, state |-> <<>>, zip_code |-> <<>>,
     telephone |-> <<>>, primary_contact |-> <<>>, coo |-> <<>>,
     cfo |-> <<>>, cmo |-> <<>>, cio |-> <<>>, chr |-> <<>>, cno |-> <<>>,
     web_address |-> <<>>, control |-> <<>>, services |-> <<>>,
     staffed_beds |-> <<>>, personnel |-> <<>>]

\* normalize_text: dashes, curly quotes and the non-breaking space
NormChar(c) ==
    CASE c \in {"ENDASH", "EMDASH"} -> "-"
      [] c \in {"RSQUO", "LSQUO"} -> "'"
      [] c \in {"LDQUO", "RDQUO"} -> "\""
      [] c = "NBSP" -> " "
      [] OTHER -> c

normalize_text(text) == [i \in 1..Len(text) |-> NormChar(text[i])]

\* What m.group(..) gives when m is None: Python raises AttributeError.
Raised == <<"AttributeError">>

\* m.group(..) over pieces from..to
Group(s, m, from, to) == IF m.ok THEN Grp(s, m, from, to) ELSE Raised

Dot == {"\n"}

\* r'Zip\s+(\d{5}(?:-\d{4})?)' with U+2013 as the separator (line 364)
ZipRe ==
    <<Lit(<<"Z", "i", "p">>), Plus(Space), Exactly(Digit, 5),
      Opt(<<Lit(<<"ENDASH">>), Exactly(Digit, 4)>>)>>

\* r'\(\d{6}\),?\s*(.+?),?\s*Zip'
AddrRe ==
    <<Lit(<<"(">>), Exactly(Digit, 6), Lit(<<")">>), Cls({","}, FALSE, 0, 1, FALSE),
      Many(Space), NotPlusLazy(Dot), Cls({","}, FALSE, 0, 1, FALSE),
      Many(Space), Lit(<<"Z", "i", "p">>)>>

\* r'^[A-Z][A-Z\s\.\'\-&,+/]+,\s*(.+?),?\s*Zip'
AddrFallbackRe ==
    <<Bol, One(Upper),
      Plus(Upper \cup Space \cup {".", "'", "-", "&", ",", "+", "/"}),
      Lit(<<",">>), Many(Space), NotPlusLazy(Dot),
      Cls({","}, FALSE, 0, 1, FALSE), Many(Space), Lit(<<"Z", "i", "p">>)>>

AccredSymbols == {"u", "e", "n", "w", "W", "s", "BOX", "STAR", "UPARROW"}

\* r'\s+[uenwWs...]\s*,?\s*$'
AccredTailRe ==
    <<Plus(Space), One(AccredSymbols), Many(Space),
      Cls({","}, FALSE, 0, 1, FALSE), Many(Space), Eol>>

\* r',\s+[uenwWs...]\s*,'
AccredMidRe ==
    <<Lit(<<",">>), Plus(Space), One(AccredSymbols), Many(Space), Lit(<<",">>)>>

\* re.sub(ps, repl, s): every non-overlapping non-empty match, left to right
RECURSIVE ReSub(_, _, _)
ReSub(ps, repl, s) ==
    LET m == ReSearch(ps, s)
    IN  IF ~m.ok \/ MEnd(m) = MStart(m) THEN s
        ELSE Slice(s, 0, MStart(m)) \o repl
                \o ReSub(ps, repl, Slice(s, MEnd(m), Len(s)))

\* lines 362-366
ExtractZip(hospital, text) ==
    LET zip_match == ReSearch(ZipRe, text)
    IN  IF zip_match.ok
        THEN ReplaceChar(Group(text, zip_match, 3, 4), "ENDASH", "-")
        ELSE hospital.zip_code

\* lines 368-384
ExtractAddress(hospital, text) ==
    LET addr_match == ReSearch(AddrRe, text)
        addr_fallback == ReSearch(AddrFallbackRe, text)
        raw == IF addr_match.ok
               THEN RStrip(Strip(Group(text, addr_match, 6, 6)), {","})
               ELSE IF addr_fallback.ok
                    THEN RStrip(Strip(Group(text, addr_fallback, 6, 6)), {","})
                    ELSE hospital.address
    IN  IF raw # <<>>
        THEN RStrip(Strip(ReSub(AccredMidRe, <<",">>,
                                ReSub(AccredTailRe, <<>>, raw))), {","})
        ELSE raw

\* r'tel\.\s*([\d/\-]+)' with U+2013 also in the class (line 387)
TelRe ==
    <<Lit(<<"t", "e", "l", ".">>), Many(Space), Plus(Digit \cup {"/", "ENDASH", "-"})>>

\* lines 386-389
ExtractTelephone(hospital, text) ==
    LET tel_match == ReSearch(TelRe, text)
    IN  IF tel_match.ok
        THEN ReplaceChar(Group(text, tel_match, 3, 3), "ENDASH", "-")
        ELSE hospital.telephone

\* r'<label>\s*([^,\n]+(?:,\s*[^,\n]+)?)'
ContactRe(label) ==
    <<Lit(label), Many(Space), NotPlus({",", "\n"}),
      Opt(<<Lit(<<",">>), Many(Space), NotPlus({",", "\n"})>>)>>

\* r'CMO:\s*([^,\n]+(?:,\s*M\.D\.[^,\n]*)?)'
CmoRe ==
    <<Lit(<<"C", "M", "O", ":">>), Many(Space), NotPlus({",", "\n"}),
      Opt(<<Lit(<<",">>), Many(Space), Lit(<<"M", ".", "D", ".">>), NotMany({",", "\n"})>>)>>

\* contact_patterns (lines 392-400)
contact_patterns ==
    [primary_contact |-> ContactRe(<<"P", "r", "i", "m", "a", "r", "y", " ",
            "C", "o", "n", "t", "a", "c", "t", ":">>),
     coo |-> ContactRe(<<"C", "O", "O", ":">>),
     cfo |-> ContactRe(<<"C", "F", "O", ":">>),
     cmo |-> CmoRe,
     cio |-> ContactRe(<<"C", "I", "O", ":">>),
     chr |-> ContactRe(<<"C", "H", "R", ":">>),
     cno |-> ContactRe(<<"C", "N", "O", ":">>)]

\* r'\s+(?:COO|CFO|CMO|CIO|CHR|CNO|Web address|Control):' (line 407)
NextMarkerRe ==
    <<Plus(Space),
      Alt(<< <<Lit(<<"C", "O", "O">>)>>, <<Lit(<<"C", "F", "O">>)>>, <<Lit(<<"C", "M", "O">>)>>,
             <<Lit(<<"C", "I", "O">>)>>, <<Lit(<<"C", "H", "R">>)>>, <<Lit(<<"C", "N", "O">>)>>,
             <<Lit(<<"W", "e", "b", " ", "a", "d", "d", "r", "e", "s", "s">>)>>, <<Lit(<<"C", "o", "n", "t", "r", "o",
            "l">>)>> >>),
      Lit(<<":">>)>>

\* one iteration of the loop of lines 402-408
ExtractContact(old, pattern, text) ==
    LET match == ReSearch(pattern, text)
    IN  IF match.ok
        THEN Strip(SplitFirst(NextMarkerRe, Strip(Group(text, match, 3, 4))))
        ELSE old

HttpRe == <<Lit(<<"h", "t", "t", "p">>), Cls({"s"}, FALSE, 0, 1, FALSE), Lit(<<":", "/",
            "/">>),
            NotPlus(Space)>>
WwwRe == <<Lit(<<"w", "w", "w", ".">>), NotPlus(Space)>>

\* r'Web address[:\s]+([^\s]+(?:www\.[^\s]+|https?://[^\s]+))'
WebRe ==
    <<Lit(<<"W", "e", "b", " ", "a", "d", "d", "r", "e", "s", "s">>), Plus({":"} \cup Space), NotPlus(Space),
      Alt(<<WwwRe, HttpRe>>)>>

\* r'(https?://[^\s]+|www\.[^\s]+)'
WebAltRe == <<Alt(<<HttpRe, WwwRe>>)>>

\* ExtractWeb without the "if web_match" of line 417 on the second pattern
ExtractWebUnguarded(hospital, text) ==
    LET web_match == ReSearch(WebRe, text)
        web_match2 == ReSearch(WebAltRe, text)
    IN  IF web_match.ok THEN Strip(Group(text, web_match, 3, 4))
        ELSE Strip(Group(text, web_match2, 1, 1))

\* lines 410-418
ExtractWeb(hospital, text) ==
    LET web_match == ReSearch(WebRe, text)
        web_match2 == ReSearch(WebAltRe, text)
    IN  IF web_match.ok THEN Strip(Group(text, web_match, 3, 4))
        ELSE IF web_match2.ok THEN Strip(Group(text, web_match2, 1, 1))
        ELSE hospital.web_address

\* r'Control:\s*([^S]+?)(?:\s+Service:|$)'
ControlRe ==
    <<Lit(<<"C", "o", "n", "t", "r", "o", "l", ":">>), Many(Space), NotPlusLazy({"S"}),
      Alt(<< <<Plus(Space), Lit(<<"S", "e", "r", "v", "i", "c", "e", ":">>)>>, <<Eol>> >>)>>

\* lines 420-423
ExtractControl(hospital, text) ==
    LET control_match == ReSearch(ControlRe, text)
    IN  IF control_match.ok THEN Strip(Group(text, control_match, 3, 3))
        ELSE hospital.control

\* r'Service:\s*([^\n]+?)(?:\s+Staffed Beds:|$)'
ServiceRe ==
    <<Lit(<<"S", "e", "r", "v", "i", "c", "e", ":">>), Many(Space), NotPlusLazy({"\n"}),
      Alt(<< <<Plus(Space), Lit(<<"S", "t", "a", "f", "f", "e", "d", " ",
            "B", "e", "d", "s", ":">>)>>, <<Eol>> >>)>>

\* lines 425-428
ExtractServices(hospital, text) ==
    LET service_match == ReSearch(ServiceRe, text)
    IN  IF service_match.ok THEN Strip(Group(text, service_match, 3, 3))
        ELSE hospital.services

\* r'Staffed Beds:\s*(\d+)'
BedsRe == <<Lit(<<"S", "t", "a", "f", "f", "e", "d", " ", "B", "e", "d", "s",
            ":">>), Many(Space), Plus(Digit)>>

\* lines 430-433
ExtractBeds(hospital, text) ==
    LET beds_match == ReSearch(BedsRe, text)
    IN  IF beds_match.ok THEN Group(text, beds_match, 3, 3)
        ELSE hospital.staffed_beds

\* r'Personnel:\s*(\d+)'
PersonnelRe == <<Lit(<<"P", "e", "r", "s", "o", "n", "n", "e", "l", ":">>), Many(Space), Plus(Digit)>>

\* lines 435-438
ExtractPersonnel(hospital, text) ==
    LET personnel_match == ReSearch(PersonnelRe, text)
    IN  IF personnel_match.ok THEN Group(text, personnel_match, 3, 3)
        ELSE hospital.personnel

ContactFields == {"primary_contact", "coo", "cfo", "cmo", "cio", "chr", "cno"}

\* parse_hospital_entry(hospital, text): the hospital with its fields set
parse_hospital_entry(hospital, text) ==
    [f \in DOMAIN hospital |->
        CASE f = "zip_code" -> ExtractZip(hospital, text)
          [] f = "address" -> ExtractAddress(hospital, text)
          [] f = "telephone" -> ExtractTelephone(hospital, text)
          [] f \in ContactFields ->
                ExtractContact(hospital[f], contact_patterns[f], text)
          [] f = "web_address" -> ExtractWeb(hospital, text)
          [] f = "control" -> ExtractControl(hospital, text)
          [] f = "services" -> ExtractServices(hospital, text)
          [] f = "staffed_beds" -> ExtractBeds(hospital, text)
          [] f = "personnel" -> ExtractPersonnel(hospital, text)
          [] OTHER -> hospital[f]]


-----------------------------------------------------------------------------
(* extract_text_from_pdf: one line of the page source is                   *)
(*   [x, y, spans], a span is [text, flags, font]                          *)

\* skip_patterns (lines 66-72)
skip_patterns ==
    <<<<"H", "o", "s", "p", "i", "t", "a", "l", ",", " ", "M", "e", "d", "i",
        "c", "a", "r", "e", " ", "P", "r", "o", "v", "i", "d", "e", "r", " ",
        "N", "u", "m", "b", "e", "r">>,
      <<"H", "o", "s", "p", "i", "t", "a", "l", "s", " ", "i", "n", " ", "t",
        "h", "e", " ", "U", "n", "i", "t", "e", "d", " ", "S", "t", "a", "t",
        "e", "s">>,
      <<"b", "y", " ", "S", "t", "a", "t", "e">>,
      <<"COPY", " ", "2", "0">>,
      <<"H", "o", "s", "p", "i", "t", "a", "l", "s", " ", " ", " ", "A">>>>

\* any(skip in line_text for skip in skip_patterns)
IsSkipLine(line_text) ==
    \E i \in 1..Len(skip_patterns) : Contains(line_text, skip_patterns[i])

\* "".join(span["text"] for span in spans)
RECURSIVE JoinSpans(_)
JoinSpans(spans) ==
    IF spans = <<>> THEN <<>> ELSE Head(spans).text \o JoinSpans(Tail(spans))

\* bool(span["flags"] & 16) or "Bold" in span.get("font", "")
IsBold(span) ==
    \/ (span.flags \div 16) % 2 = 1
    \/ Contains(span.font, <<"B", "o", "l", "d">>)

\* r'^\s*\(\d{6}\)\s*$'
ProviderSpanRe ==
    <<Bol, Many(Space), Lit(<<"(">>), Exactly(Digit, 6), Lit(<<")">>),
      Many(Space), Eol>>

\* r'\d{6}'
SixDigitsRe == <<Exactly(Digit, 6)>>

\* r"^[A-Z][A-Z0-9\s\.'\-–—&,+/]+$"
BoldNameRe ==
    <<Bol, One(Upper),
      Plus(Upper \cup Digit \cup Space
             \cup {".", "'", "-", "ENDASH", "EMDASH", "&", ",", "+", "/"}),
      Eol>>

\* r'\d+\s+[A-Za-z]'
StreetRe == <<Plus(Digit), Plus(Space), One(Upper \cup Lower)>>

NoSpans ==
    [bold_name |-> <<>>, provider_num |-> <<>>, rest_text |-> <<>>,
     found_bold_name |-> FALSE]

\* one iteration of the loop over the spans (lines 110-134)
SpanStep(acc, span) ==
    LET text == span.text
        name_text ==
            ReplaceChar(ReplaceChar(Strip(text), "RSQUO", "'"), "LSQUO", "'")
    IN  IF Len(Strip(text)) <= 2 /\ ~IsBold(span) THEN acc
        ELSE IF IsBold(span) /\ ReMatch(ProviderSpanRe, text).ok
        THEN [acc EXCEPT
                !.provider_num = Group(text, ReSearch(SixDigitsRe, text), 1, 1)]
        ELSE IF IsBold(span) /\ ~acc.found_bold_name
        THEN IF /\ name_text # <<>>
                /\ Len(name_text) > 5
                /\ ReMatch(BoldNameRe, name_text).ok
             THEN [acc EXCEPT !.bold_name = name_text,
                              !.found_bold_name = TRUE]
             ELSE acc
        ELSE IF ~IsBold(span) /\ acc.found_bold_name
        THEN [acc EXCEPT !.rest_text = @ \o text]
        ELSE acc

RECURSIVE ScanSpans(_, _)
ScanSpans(acc, spans) ==
    IF spans = <<>> THEN acc
    ELSE ScanSpans(SpanStep(acc, Head(spans)), Tail(spans))

\* the names of the list of lines 142-143: the first 10 of the vocabulary
NumTypographyStates == 10
TypographyStates ==
    {DirectoryStates[i] : i \in 1..NumTypographyStates}

\* lines 136-153: is the scanned line a hospital entry?
IsEntry(acc) ==
    /\ acc.bold_name # <<>>
    /\ ~StartsWith(Strip(acc.rest_text), <<"S", "e", "e", " ">>)
    /\ acc.bold_name \notin TypographyStates
    /\ \/ acc.provider_num # <<>>
       \/ /\ StartsWith(Strip(acc.rest_text), <<",">>)
          /\ ReSearch(StreetRe, acc.rest_text).ok

\* lines 101-153: the entries (none or one) that a line adds
DetectEntries(raw) ==
    LET acc == ScanSpans(NoSpans, raw.spans)
    IN  IF Len(raw.spans) >= 2 /\ IsEntry(acc)
        THEN <<[name |-> acc.bold_name,
                provider_number |-> acc.provider_num,
                line_text |-> normalize_text(JoinSpans(raw.spans)),
                x |-> raw.x, y |-> raw.y]>>
        ELSE <<>>

\* the column bucket left in the order in which the lines arrived
Unsorted(items) == items

\* list.sort(key=lambda item: item[1]): stable, ascending y
SortByY(items) ==
    LET n == Len(items)
        rank(i) == Cardinality({j \in 1..n :
                        \/ items[j].y < items[i].y
                        \/ items[j].y = items[i].y /\ j < i}) + 1
    IN  [k \in 1..n |-> items[CHOOSE i \in 1..n : rank(i) = k]]

\* for _, _, text in items: full_text += text + "\n"
RECURSIVE JoinItems(_)
JoinItems(items) ==
    IF items = <<>> THEN <<>>
    ELSE Head(items).text \o <<"\n">> \o JoinItems(Tail(items))


-----------------------------------------------------------------------------
(* parse_hospitals_from_font_detection and parse_hospitals                 *)

\* r'^(ALABAMA|ALASKA|...|WYOMING)$' (lines 201 and 285)
StateHeaderRe ==
    <<Bol, Alt([i \in 1..NumDirectoryStates |-> <<Lit(DirectoryStates[i])>>]),
      Eol>>

\* r'^([A-Z][A-Z\s\.]+)[-—](.+\s+County)$' (lines 207, 246, 292 and 335)
CountyHeaderRe ==
    <<Bol, One(Upper), Plus(Upper \cup Space \cup {"."}),
      One({"-", "EMDASH"}), NotPlus(Dot), Plus(Space), Lit(<<"C", "o", "u",
            "n", "t", "y">>), Eol>>

NoContext ==
    [current_state |-> <<>>, current_city |-> <<>>, current_county |-> <<>>]

\* the header tests that both parsers make on a stripped line
SetState(ctx, line) ==
    [ctx EXCEPT !.current_state = Group(line, ReMatch(StateHeaderRe, line), 2, 2)]

SetCounty(ctx, line) ==
    LET county_match == ReMatch(CountyHeaderRe, line)
    IN  [ctx EXCEPT !.current_city = Strip(Group(line, county_match, 2, 3)),
                    !.current_county = Strip(Group(line, county_match, 5, 7))]

\* the first pass (lines 194-211): state_county_map, a list of
\* (line index, state, city, county); indices count from 0 as in the code
RECURSIVE FirstPass(_, _, _, _)
FirstPass(lines, i, ctx, map) ==
    IF i >= Len(lines) THEN map
    ELSE LET line == Strip(lines[i + 1])
         IN  IF ReMatch(StateHeaderRe, line).ok
             THEN FirstPass(lines, i + 1, SetState(ctx, line), map)
             ELSE IF ReMatch(CountyHeaderRe, line).ok
             THEN LET c == SetCounty(ctx, line)
                  IN  FirstPass(lines, i + 1, c,
                                Append(map, [idx |-> i,
                                             state |-> c.current_state,
                                             city |-> c.current_city,
                                             county |-> c.current_county]))
             ELSE FirstPass(lines, i + 1, ctx, map)

\* entry_line in line or line.startswith(entry_line[:30])
EntryAt(entry_line, line) ==
    \/ Contains(line, entry_line)
    \/ StartsWith(line, Slice(entry_line, 0,
                              IF Len(entry_line) < 30 THEN Len(entry_line)
                              ELSE 30))

\* the index (from 0) of the first line at which the entry is found; -1 if none
EntryIndex(lines, entry_line) ==
    LET at == {i \in 0..(Len(lines) - 1) : EntryAt(entry_line, lines[i + 1])}
    IN  IF at = {} THEN -1 ELSE SetMin(at)

\* lines 224-233: state, city and county of the last map entry before line i
EntryContext(hospital, map, i) ==
    LET before == {k \in 1..Len(map) : map[k].idx < i}
    IN  IF i < 0 \/ before = {} THEN hospital
        ELSE LET e == map[SetMax(before)]
             IN  [hospital EXCEPT !.state = e.state, !.city = e.city,
                                  !.county = e.county]

Marks == {"STAR", "BOX", "UPARROW", "u", "e", "n", "w", "W"}
NameChars ==
    Upper \cup Lower \cup Digit \cup Space
        \cup {".", "'", "-", "&", ",", "+", "/"}
CapsChars ==
    Upper \cup Digit \cup Space \cup {".", "'", "-", "&", ",", "+", "/"}

\* r"^[...uenwW\s\t]*[A-Z][A-Za-z0-9\s\.'\-&,+/]+\s*\(\d{6}\)" (line 253)
NextHospitalRe ==
    <<Bol, Many(Marks \cup Space), One(Upper), Plus(NameChars), Many(Space),
      Lit(<<"(">>), Exactly(Digit, 6), Lit(<<")">>)>>

\* r"^[...uenwW\s\t]*[A-Z][A-Z0-9\s\.'\-&,+/]+,\s*\d+\s+[A-Za-z]" (line 256)
NextMilitaryRe ==
    <<Bol, Many(Marks \cup Space), One(Upper), Plus(CapsChars), Lit(<<",">>),
      Many(Space), Plus(Digit), Plus(Space), One(Upper \cup Lower)>>

\* the tests of lines 246-257 on a stripped line: "break", "continue" or
\* "append"
FontLineVerdict(line_stripped) ==
    IF ReMatch(CountyHeaderRe, line_stripped).ok THEN "break"
    ELSE IF \/ StartsWith(line_stripped, <<"H", "o", "s", "p", "i", "t", "a",
                                           "l", "s", ",", " ", "U", ".", "S", ".">>)
            \/ StartsWith(line_stripped, <<"COPY", " ", "2", "0">>)
    THEN "continue"
    ELSE IF StartsWith(line_stripped, <<"H", "o", "s", "p", "i", "t", "a",
                                        "l", ",", " ", "M", "e", "d", "i", "c",
                                        "a", "r", "e", " ", "P", "r", "o", "v",
                                        "i", "d", "e", "r">>)
    THEN "continue"
    ELSE IF ReMatch(NextHospitalRe, line_stripped).ok THEN "break"
    ELSE IF ReMatch(NextMilitaryRe, line_stripped).ok THEN "break"
    ELSE "append"

\* lines 243-259 from line i (from 0) on: the text collected and the index
\* at which the loop ends
RECURSIVE FontCollect(_, _, _)
FontCollect(lines, i, entry_text) ==
    IF i >= Len(lines) THEN [entry_text |-> entry_text, stop |-> i]
    ELSE LET line_stripped == Strip(lines[i + 1])
             verdict == FontLineVerdict(line_stripped)
         IN  IF verdict = "break"
             THEN [entry_text |-> entry_text, stop |-> i]
             ELSE IF verdict = "continue"
             THEN FontCollect(lines, i + 1, entry_text)
             ELSE FontCollect(lines, i + 1,
                              entry_text \o <<" ">> \o line_stripped)

\* FontEntryText without the found_start guard of lines 238-241: an entry
\* that is not found collects the lines from the top of the text
FontEntryTextUnguarded(lines, start) ==
    IF start < 0 THEN FontCollect(lines, 1, lines[1])
    ELSE FontCollect(lines, start + 1, lines[start + 1])

\* lines 235-259: the entry text of an entry found at line start (from 0)
FontEntryText(lines, start) ==
    IF start < 0 THEN [entry_text |-> <<>>, stop |-> Len(lines)]
    ELSE FontCollect(lines, start + 1, lines[start + 1])

\* (?:[...uenwW][\s\t]+|[\s\t])*
LeadIn == Star(<<Alt(<< <<One(Marks), Plus(Space)>>, <<One(Space)>> >>)>>)

\* the pattern of line 305, and of line 337
HospitalRe ==
    <<Bol, LeadIn, One(Upper), Plus(NameChars), Many(Space),
      Lit(<<"(">>), Exactly(Digit, 6), Lit(<<")">>)>>

\* the pattern of lines 310-315, and of line 339
HospitalNoIdRe ==
    <<Bol, LeadIn, One(Upper), Plus(CapsChars), Lit(<<",">>), Many(Space),
      Plus(Digit), Plus(Space), One(Upper \cup Lower)>>

\* line 300
IsCrossReference(line) ==
    \/ Contains(line, <<" ", "S", "e", "e", " ">>)
    \/ EndsWith(line, <<" ", "S", "e", "e">>)
    \/ Contains(line, <<"(", "I", "n", "c", "l", "u", "d", "e", "s", " ">>)

\* the tests of lines 335-346 on a stripped line
LegacyLineVerdict(next_line) ==
    IF ReMatch(CountyHeaderRe, next_line).ok THEN "break"
    ELSE IF ReMatch(HospitalRe, next_line).ok THEN "break"
    ELSE IF ReMatch(HospitalNoIdRe, next_line).ok THEN "break"
    ELSE IF \/ StartsWith(next_line, <<"H", "o", "s", "p", "i", "t", "a",
                                       "l", "s", ",", " ", "U", ".", "S", ".">>)
            \/ StartsWith(next_line, <<"COPY", " ", "2", "0">>)
    THEN "continue"
    ELSE IF StartsWith(next_line, <<"H", "o", "s", "p", "i", "t", "a", "l",
                                    ",", " ", "M", "e", "d", "i", "c", "a",
                                    "r", "e", " ", "P", "r", "o", "v", "i",
                                    "d", "e", "r">>)
    THEN "continue"
    ELSE "append"

\* lines 333-348
RECURSIVE LegacyCollect(_, _, _)
LegacyCollect(lines, i, entry_text) ==
    IF i >= Len(lines) THEN [entry_text |-> entry_text, stop |-> i]
    ELSE LET next_line == Strip(lines[i + 1])
             verdict == LegacyLineVerdict(next_line)
         IN  IF verdict = "break"
             THEN [entry_text |-> entry_text, stop |-> i]
             ELSE IF verdict = "continue"
             THEN LegacyCollect(lines, i + 1, entry_text)
             ELSE LegacyCollect(lines, i + 1,
                                entry_text \o <<" ">> \o next_line)

\* lines 317-327: the hospital that a record-start line opens
LegacyHospital(ctx, line) ==
    LET hospital_match == ReMatch(HospitalRe, line)
        hospital_no_id_match == ReMatch(HospitalNoIdRe, line)
    IN  [Hospital EXCEPT
            !.name = IF hospital_match.ok
                     THEN Strip(Group(line, hospital_match, 3, 4))
                     ELSE Strip(Group(line, hospital_no_id_match, 3, 4)),
            !.medicare_provider_number =
                     IF hospital_match.ok
                     THEN Group(line, hospital_match, 7, 7) ELSE <<>>,
            !.state = ctx.current_state,
            !.county = ctx.current_county,
            !.city = ctx.current_city]


\* one iteration of the loop of parse_hospitals (lines 281-354) on
\* st = [i, ctx, start, entry_text, stop, hospitals], with i counting from
\* 0, start the value of i at which the last record was opened (line 317)
\* and stop the value of i at which its inner loop ended (line 333)
LegacyIter(lines, st) ==
    LET line == Strip(lines[st.i + 1])
    IN  IF ReMatch(StateHeaderRe, line).ok
        THEN [st EXCEPT !.ctx = SetState(st.ctx, line), !.i = @ + 1]
        ELSE IF ReMatch(CountyHeaderRe, line).ok
        THEN [st EXCEPT !.ctx = SetCounty(st.ctx, line), !.i = @ + 1]
        ELSE IF IsCrossReference(line)
        THEN [st EXCEPT !.i = @ + 1]
        ELSE IF ReMatch(HospitalRe, line).ok \/ ReMatch(HospitalNoIdRe, line).ok
        THEN LET got == LegacyCollect(lines, st.i + 1, line)
             IN  [st EXCEPT
                    !.i = got.stop,
                    !.start = st.i,
                    !.entry_text = got.entry_text,
                    !.stop = got.stop,
                    !.hospitals =
                        Append(@, parse_hospital_entry(
                                      LegacyHospital(st.ctx, line),
                                      got.entry_text))]
        ELSE [st EXCEPT !.i = @ + 1]

-----------------------------------------------------------------------------
(* System/network variant: src/extract_sectionb_data.py, the hospital line *)

\* dataclass HospitalEntry: every field defaults to the empty string
HospitalEntry ==
    [healthcare_system |-> <<>>, system_id |-> <<>>, system_type |-> <<>>,
     system_classification |-> <<>>, system_address |-> <<>>,
     system_city |-> <<>>, system_state |-> <<>>, system_zip |-> <<>>,
     system_telephone |-> <<>>, system_ceo |-> <<>>, section |-> <<>>,
     hospital_name |-> <<>>, ownership_type |-> <<>>, staffed_beds |-> <<>>,
     address |-> <<>>, city |-> <<>>, state |-> <<>>, state_abbrev |-> <<>>,
     zip_code |-> <<>>, telephone |-> <<>>, contact |-> <<>>,
     web_address |-> <<>>]

\* ABBREV_TO_STATE.get(abbrev, ''): the dict comprehension keeps the last
\* name of an abbreviation
AbbrevToState(abbrev) ==
    LET at == {i \in 1..Len(STATE_ABBREVS) : STATE_ABBREVS[i][2] = abbrev}
    IN  IF at = {} THEN <<>> ELSE STATE_ABBREVS[SetMax(at)][1]

\* . under re.DOTALL: any character
AnyPlusLazy == Cls({}, TRUE, 1, -1, TRUE)
AnyMany == Cls({}, TRUE, 0, -1, FALSE)

\* r'Zip\s+(\d{5}(?:-\d{4})?)'
ZipBlockRe ==
    <<Lit(<<"Z", "i", "p">>), Plus(Space), Exactly(Digit, 5),
      Opt(<<Lit(<<"-">>), Exactly(Digit, 4)>>)>>

\* r'^(.+?),\s*([A-Z]{2}),\s*Zip'
AddrStateRe ==
    <<Bol, NotPlusLazy(Dot), Lit(<<",">>), Many(Space), Exactly(Upper, 2),
      Lit(<<",">>), Many(Space), Lit(<<"Z", "i", "p">>)>>

\* r'^(.+?),\s*Zip'
AddrZipRe == <<Bol, NotPlusLazy(Dot), Lit(<<",">>), Many(Space), Lit(<<"Z", "i", "p">>)>>

\* r',\s*([A-Z]{2})\s*$'
StateAtEndRe ==
    <<Lit(<<",">>), Many(Space), Exactly(Upper, 2), Many(Space), Eol>>

\* r'tel\.\s*([\d/\-]+(?:\s+\d+)?)'
TelBlockRe ==
    <<Lit(<<"t", "e", "l", ".">>), Many(Space), Plus(Digit \cup {"/", "-"}),
      Opt(<<Plus(Space), Plus(Digit)>>)>>

\* r'-\s+(\d+)'
PhoneBreakRe == <<Lit(<<"-">>), Plus(Space), Plus(Digit)>>

\* re.sub(r'-\s+(\d+)', r'-\1', phone)
RECURSIVE JoinPhone(_)
JoinPhone(phone) ==
    LET m == ReSearch(PhoneBreakRe, phone)
    IN  IF ~m.ok THEN phone
        ELSE Slice(phone, 0, MStart(m)) \o <<"-">> \o Grp(phone, m, 3, 3)
                \o JoinPhone(Slice(phone, MEnd(m), Len(phone)))

\* r'^(\d+)[,;\s]*(.*)'
DigitsRe == <<Bol, Plus(Digit), Many({",", ";"} \cup Space), NotMany(Dot)>>

\* r'\s*Web address\s*:'
WebSplitRe == <<Many(Space), Lit(<<"W", "e", "b", " ", "a", "d", "d", "r",
                                   "e", "s", "s">>), Many(Space), Lit(<<":">>)>>

\* r'Web address\s*:\s*(\S+)'
WebBlockRe ==
    <<Lit(<<"W", "e", "b", " ", "a", "d", "d", "r", "e", "s", "s">>), Many(Space), Lit(<<":">>), Many(Space),
      NotPlus(Space)>>

\* re.sub(r'^[,;\s]+', '', s)
DropLead(s) == LStripSet(s, {",", ";"} \cup Space)

\* lines 777-780
BlockZip(result, remainder) ==
    LET zip_match == ReSearch(ZipBlockRe, remainder)
    IN  IF zip_match.ok THEN Group(remainder, zip_match, 3, 4)
        ELSE result.zip_code

\* lines 790-796: the fallback, on the text before ', Zip'
AddressBeforeZip(result, addr_text, state_at_end) ==
    IF state_at_end.ok
    THEN <<RStrip(Strip(Slice(addr_text, 0, MStart(state_at_end))), {","}),
           Group(addr_text, state_at_end, 3, 3)>>
    ELSE <<addr_text, result.state_abbrev>>

\* lines 783-796 with the two matches in hand
AddressFrom(result, remainder, addr_match, addr_match2, addr_text) ==
    IF addr_match.ok
    THEN <<RStrip(Strip(Group(remainder, addr_match, 2, 2)), {","}),
           Group(remainder, addr_match, 5, 5)>>
    ELSE IF addr_match2.ok
    THEN AddressBeforeZip(result, addr_text,
                          ReSearch(StateAtEndRe, addr_text))
    ELSE <<result.address, result.state_abbrev>>

\* the text before ', Zip' of the fallback match (line 790)
FallbackText(remainder, addr_match2) ==
    IF addr_match2.ok THEN Strip(Grp(remainder, addr_match2, 2, 2)) ELSE <<>>

\* lines 782-796: <<address, state_abbrev>>
BlockAddress(result, remainder) ==
    AddressFrom(result, remainder, ReMatch(AddrStateRe, remainder),
                ReMatch(AddrZipRe, remainder),
                FallbackText(remainder, ReMatch(AddrZipRe, remainder)))

\* lines 819-821: the contact is the text before 'Web address:'
ContactOf(result, contact_text) ==
    IF contact_text # <<>> THEN RStrip(contact_text, {"."})
    ELSE result.contact

\* lines 811-821 with the phone, the text after it and the digits match
PhoneAndContact(result, phone, after_tel, digits_match) ==
    IF phone # <<>> /\ phone[Len(phone)] = "-" /\ digits_match.ok
    THEN <<phone \o Group(after_tel, digits_match, 2, 2),
           ContactOf(result,
                Strip(SplitFirst(WebSplitRe,
                        DropLead(Strip(Group(after_tel, digits_match, 4, 4))))))>>
    ELSE <<phone, ContactOf(result, Strip(SplitFirst(WebSplitRe, after_tel)))>>

\* lines 806-813 with the phone and the text after it
AfterTelephone(result, phone, after_tel) ==
    PhoneAndContact(result, phone, after_tel, ReMatch(DigitsRe, after_tel))

\* lines 799-807 with the telephone match in hand
TelephoneFrom(result, remainder, tel_match) ==
    IF ~tel_match.ok THEN <<result.telephone, result.contact>>
    ELSE AfterTelephone(result, JoinPhone(Group(remainder, tel_match, 3, 4)),
                        DropLead(Slice(remainder, MEnd(tel_match),
                                       Len(remainder))))

\* lines 798-821: <<telephone, contact>>
BlockTelephone(result, remainder) ==
    TelephoneFrom(result, remainder, ReSearch(TelBlockRe, remainder))

\* lines 823-826
BlockWeb(result, remainder) ==
    LET web_match == ReSearch(WebBlockRe, remainder)
    IN  IF web_match.ok THEN Strip(Group(remainder, web_match, 5, 5))
        ELSE result.web_address

\* the dict with the fields that _parse_address_block has set
BlockFields(result, zip_code, address, telephone, web_address) ==
    [result EXCEPT
        !.zip_code = zip_code,
        !.address = address[1],
        !.state_abbrev = address[2],
        !.telephone = telephone[1],
        !.contact = telephone[2],
        !.web_address = web_address]

\* _parse_address_block(result, remainder): the dict it leaves behind
_parse_address_block(result, remainder) ==
    BlockFields(result, BlockZip(result, remainder),
                BlockAddress(result, remainder),
                BlockTelephone(result, remainder),
                BlockWeb(result, remainder))

\* the result dict of parse_hospital_text and parse_network_hospital_text
NoResult(state, state_abbrev, section) ==
    [hospital_name |-> <<>>, ownership_type |-> <<>>, staffed_beds |-> <<>>,
     address |-> <<>>, city |-> <<>>, state |-> state,
     state_abbrev |-> state_abbrev, zip_code |-> <<>>, telephone |-> <<>>,
     contact |-> <<>>, web_address |-> <<>>, section |-> section]

\* r'^(.+?)\s*\(([OLCS]|PART),\s*(\d+)\s*beds?\)\s*(.*)' with re.DOTALL
HospLineRe ==
    <<Bol, AnyPlusLazy, Many(Space), Lit(<<"(">>),
      Alt(<< <<One({"O", "L", "C", "S"})>>, <<Lit(<<"P", "A", "R", "T">>)>> >>),
      Lit(<<",">>), Many(Space), Plus(Digit), Many(Space), Lit(<<"b", "e", "d">>),
      Cls({"s"}, FALSE, 0, 1, FALSE), Lit(<<")">>), Many(Space), AnyMany>>

\* lines 736-745 with the stripped text and its match in hand
HospitalFrom(result, stripped, hosp_match) ==
    IF ~hosp_match.ok THEN result
    ELSE _parse_address_block(
            [result EXCEPT
                !.hospital_name = Strip(Group(stripped, hosp_match, 2, 2)),
                !.ownership_type = Group(stripped, hosp_match, 5, 5),
                !.staffed_beds = Group(stripped, hosp_match, 8, 8)],
            Strip(Group(stripped, hosp_match, 14, 14)))

\* line 727 on: the text is stripped and matched
HospitalStripped(result, stripped) ==
    HospitalFrom(result, stripped, ReMatch(HospLineRe, stripped))

\* parse_hospital_text(text, state, state_abbrev)
parse_hospital_text(text, state, state_abbrev) ==
    HospitalStripped(NoResult(state, state_abbrev, <<"S", "y", "s", "t", "e", "m", "s">>), Strip(text))

\* d.get(k, '')
Get(d, k) == IF k \in DOMAIN d THEN d[k] ELSE <<>>

\* DeriveState without the test of line 857: the state is always looked up
DeriveStateAlways(entry) ==
    [entry EXCEPT !.state = AbbrevToState(entry.state_abbrev)]

\* lines 856-858: the state name is derived from the abbreviation
DeriveState(entry) ==
    IF entry.state = <<>> /\ entry.state_abbrev # <<>>
    THEN [entry EXCEPT !.state = AbbrevToState(entry.state_abbrev)]
    ELSE entry

\* build_entry(hdr, addr, result)
build_entry(hdr, addr, result) ==
    DeriveState(
        [HospitalEntry EXCEPT
            !.healthcare_system = hdr.name,
            !.system_id = hdr.id,
            !.system_type = hdr.type,
            !.system_classification = Get(addr, "classification"),
            !.system_address = Get(addr, "address"),
            !.system_city = Get(addr, "city"),
            !.system_state = Get(addr, "state"),
            !.system_zip = Get(addr, "zip"),
            !.system_telephone = Get(addr, "telephone"),
            !.system_ceo = Get(addr, "ceo"),
            !.section = IF "section" \in DOMAIN result THEN result.section
                        ELSE Get(hdr, "section"),
            !.hospital_name = Get(result, "hospital_name"),
            !.ownership_type = Get(result, "ownership_type"),
            !.staffed_beds = Get(result, "staffed_beds"),
            !.address = Get(result, "address"),
            !.city = Get(result, "city"),
            !.state = Get(result, "state"),
            !.state_abbrev = Get(result, "state_abbrev"),
            !.zip_code = Get(result, "zip_code"),
            !.telephone = Get(result, "telephone"),
            !.contact = Get(result, "contact"),
            !.web_address = Get(result, "web_address")])

-----------------------------------------------------------------------------
(* extract_section_b, phase 1: a page is [width, blocks], a block is a     *)
(* sequence of lines [x, y, spans], a span is [text, flags, font, size]    *)
(* with size in tenths of a point                                          *)

\* US_STATES: the keys of STATE_ABBREVS
US_STATES == {STATE_ABBREVS[i][1] : i \in 1..Len(STATE_ABBREVS)}

\* SKIP_PATTERNS (lines 80-95)
SKIP_PATTERNS ==
    <<<<"F", "o", "r", " ", "e", "x", "p", "l", "a", "n", "a", "t", "i", "o",
        "n", " ", "o", "f", " ", "c", "o", "d", "e", "s", " ", "f", "o", "l",
        "l", "o", "w", "i", "n", "g", " ", "n", "a", "m", "e", "s">>,
      <<"I", "n", "d", "i", "c", "a", "t", "e", "s", " ", "T", "y", "p", "e",
        " ", "I", "I", "I", " ", "m", "e", "m", "b", "e", "r", "s", "h", "i",
        "p">>,
      <<"S", "e", "c", "t", "i", "o", "n", " ", "B">>,
      <<"COPY", " ", "2", "0", "2", "6">>,
      <<"COPY", " ", " ", "2", "0", "2", "6">>,
      <<"H", "e", "a", "l", "t", "h", " ", "C", "a", "r", "e", " ", "S", "y",
        "s", "t", "e", "m", "s", ",", " ", "N", "e", "t", "w", "o", "r", "k",
        "s", " ", "a", "n", "d", " ", "A", "l", "l", "i", "a", "n", "c", "e",
        "s">>,
      <<"H", "e", "a", "l", "t", "h", " ", "C", "a", "r", "e", " ", "S", "y",
        "s", "t", "e", "m", "s", " ", " ", " ", "B">>,
      <<"H", "e", "a", "l", "t", "h", " ", "C", "a", "r", "e", " ", "S", "y",
        "s", "t", "e", "m", "s", " ", "I", "n", "d", "e", "x">>,
      <<"H", "e", "a", "d", "q", "u", "a", "r", "t", "e", "r", "s", " ", "o",
        "f", " ", "H", "e", "a", "l", "t", "h", " ", "C", "a", "r", "e", " ",
        "S", "y", "s", "t", "e", "m", "s">>,
      <<"T", "h", "i", "s", " ", "d", "o", "c", "u", "m", "e", "n", "t", " ",
        "i", "s", " ", "l", "i", "c", "e", "n", "s", "e", "d", " ", "t", "o">>,
      <<"c", "o", "p", "y", "r", "i", "g", "h", "t", "e", "d", " ", "b", "y",
        " ", "t", "h", "e", " ", "A", "m", "e", "r", "i", "c", "a", "n", " ",
        "H", "o", "s", "p", "i", "t", "a", "l", " ", "A", "s", "s", "o", "c",
        "i", "a", "t", "i", "o", "n">>,
      <<"D", "i", "s", "t", "r", "i", "b", "u", "t", "i", "o", "n", " ", "o",
        "r", " ", "d", "u", "p", "l", "i", "c", "a", "t", "i", "o", "n", " ",
        "i", "s", " ", "p", "r", "o", "h", "i", "b", "i", "t", "e", "d">>,
      <<"N", "e", "t", "w", "o", "r", "k", "s", " ", "a", "n", "d">>,
      <<"t", "h", "e", "i", "r", " ", "H", "o", "s", "p", "i", "t", "a", "l",
        "s">>>>

\* the lines of a page, block after block
RECURSIVE Flatten(_)
Flatten(blocks) ==
    IF blocks = <<>> THEN <<>> ELSE Head(blocks) \o Flatten(Tail(blocks))

\* page.get_text(): the text of the lines of the page, one per line
RECURSIVE PageText(_)
PageText(lines) ==
    IF lines = <<>> THEN <<>>
    ELSE JoinSpans(Head(lines).spans) \o <<"\n">> \o PageText(Tail(lines))

\* y < 50: the band of the running header (line 116)
HeaderBand == 50

\* lines 110-122: the verdict of the first running header line, if any
RunningHeader(lines) ==
    LET kind(i) ==
            LET t == Strip(JoinSpans(lines[i].spans))
            IN  IF lines[i].y >= HeaderBand THEN "none"
                ELSE IF StartsWith(t, <<"N", "e", "t", "w", "o", "r", "k",
                                        "s", " ", "/">>) THEN "networks"
                ELSE IF StartsWith(t, <<"S", "y", "s", "t", "e", "m", "s",
                                        " ", "/">>) THEN "systems"
                ELSE "none"
        hits == {i \in 1..Len(lines) : kind(i) # "none"}
    IN  IF hits = {} THEN "none" ELSE kind(SetMin(hits))

\* classify_page(page)
classify_page(page) ==
    LET lines == Flatten(page.blocks)
        text_ == PageText(lines)
    IN  IF Contains(text_, <<"H", "e", "a", "l", "t", "h", " ", "C", "a",
                             "r", "e", " ", "S", "y", "s", "t", "e", "m", "s",
                             " ", "I", "n", "d", "e", "x">>) THEN "index"
        ELSE IF Contains(text_, <<"H", "e", "a", "d", "q", "u", "a", "r",
                                  "t", "e", "r", "s", " ", "o", "f", " ", "H",
                                  "e", "a", "l", "t", "h", " ", "C", "a", "r",
                                  "e", " ", "S", "y", "s", "t", "e", "m", "s">>)
        THEN "index"
        ELSE IF RunningHeader(lines) # "none" THEN RunningHeader(lines)
        ELSE IF Contains(text_, <<"S", "e", "c", "t", "i", "o", "n", " ",
                                  "B">>) THEN "systems"
        ELSE "skip"

\* s.get("size", 0), in tenths of a point
SizeOf(span) == IF "size" \in DOMAIN span THEN span.size ELSE 0

\* size >= 7.7 (lines 190 and 217)
SystemHeaderSize == 77
\* 6.0 <= span_size <= 6.5 (line 254)
NetworkHeaderMin == 60
NetworkHeaderMax == 65

\* r'^B\d+$'
PageNumberRe == <<Bol, Lit(<<"B">>), Plus(Digit), Eol>>

\* r'\d{4}:'
SystemIdRe == <<Exactly(Digit, 4), Lit(<<":">>)>>

\* r'^[w\s]*(\d{4}):\s+(.+?)\s*\(([A-Z]{2,4})\)\s*$'
SystemHeaderRe ==
    <<Bol, Many({"w"} \cup Space), Exactly(Digit, 4), Lit(<<":">>), Plus(Space),
      NotPlusLazy(Dot), Many(Space), Lit(<<"(">>), Cls(Upper, FALSE, 2, 4, FALSE),
      Lit(<<")">>), Many(Space), Eol>>

\* r'^[A-Z][A-Z\s\.\',&\-/]+$'
NetworkNameRe ==
    <<Bol, One(Upper),
      Plus(Upper \cup Space \cup {".", "'", ",", "&", "-", "/"}), Eol>>

\* header_info = None
NoHeader == [target |-> "none"]

\* the header_info of a text that matches SystemHeaderRe
SystemHeader(t, m, page_num) ==
    [name |-> Strip(Grp(t, m, 6, 6)), id |-> Grp(t, m, 3, 3),
     type |-> Grp(t, m, 9, 9), page_num |-> page_num,
     section |-> <<"S", "y", "s", "t", "e", "m", "s">>, target |-> "system"]

\* lines 187-192
HasBoldSystemSpan(spans) ==
    \E i \in 1..Len(spans) :
        /\ IsBold(spans[i])
        /\ SizeOf(spans[i]) >= SystemHeaderSize
        /\ ReSearch(SystemIdRe, spans[i].text).ok

\* lines 214-219
AheadBold(spans) ==
    \E i \in 1..Len(spans) :
        IsBold(spans[i]) /\ SizeOf(spans[i]) >= SystemHeaderSize

\* lines 213-242: the look-ahead over the bold lines that follow line_i in
\* the block (ahead_i counts from 1); gives the header and the skipped lines
RECURSIVE LookAhead(_, _, _, _, _)
LookAhead(block_lines, ahead_i, combined_text, skipped, page_num) ==
    IF ahead_i > Len(block_lines) \/ ~AheadBold(block_lines[ahead_i].spans)
    THEN [header_info |-> NoHeader, skip_line_indices |-> skipped]
    ELSE LET ahead_text ==
                Strip(normalize_text(JoinSpans(block_lines[ahead_i].spans)))
             combined == combined_text \o <<" ">> \o ahead_text
             header_match == ReMatch(SystemHeaderRe, combined)
         IN  IF header_match.ok
             THEN [header_info |->
                        SystemHeader(combined, header_match, page_num),
                   skip_line_indices |-> skipped \cup {ahead_i}]
             ELSE LookAhead(block_lines, ahead_i + 1, combined,
                            skipped \cup {ahead_i}, page_num)

\* lines 184-243: the header of line line_i of a systems page
SystemLine(block_lines, line_i, page_num) ==
    LET spans == block_lines[line_i].spans
        t == Strip(normalize_text(JoinSpans(spans)))
        header_match == ReMatch(SystemHeaderRe, t)
    IN  IF ~HasBoldSystemSpan(spans)
        THEN [header_info |-> NoHeader, skip_line_indices |-> {}]
        ELSE IF header_match.ok
        THEN [header_info |-> SystemHeader(t, header_match, page_num),
              skip_line_indices |-> {}]
        ELSE LookAhead(block_lines, line_i + 1, t, {}, page_num)

\* lines 245-270: the header of a line of a networks page
NetworkLine(spans, page_num) ==
    LET text_stripped == Strip(normalize_text(JoinSpans(spans)))
        first_span == spans[1]
    IN  IF /\ Len(spans) >= 1
           /\ IsBold(first_span)
           /\ NetworkHeaderMin <= SizeOf(first_span)
           /\ SizeOf(first_span) <= NetworkHeaderMax
           /\ ReMatch(NetworkNameRe, text_stripped).ok
           /\ text_stripped \notin US_STATES
           /\ Len(text_stripped) > 3
           /\ ~Contains(Slice(text_stripped, 0,
                               IF Len(text_stripped) < 20
                               THEN Len(text_stripped) ELSE 20), <<",">>)
           /\ ~\E i \in 1..Len(text_stripped) : text_stripped[i] \in Digit
           /\ ~Contains(text_stripped, <<"Z", "i", "p">>)
           /\ ~Contains(text_stripped, <<"t", "e", "l", ".">>)
        THEN [name |-> text_stripped, id |-> <<>>, type |-> <<"N", "E", "T">>,
              page_num |-> page_num, section |-> <<"N", "e", "t", "w", "o", "r", "k",
                                                   "s">>,
              target |-> "network"]
        ELSE NoHeader

\* lines 175-181: the boilerplate lines and the page numbers
IsSectionSkipLine(line_text) ==
    \/ \E i \in 1..Len(SKIP_PATTERNS) : Contains(line_text, SKIP_PATTERNS[i])
    \/ ReMatch(PageNumberRe, Strip(line_text)).ok

\* a header gets the index of the line before its own
RECURSIVE AddItemsBehind(_, _)
AddItemsBehind(acc, items) ==
    IF items = <<>> THEN acc
    ELSE LET it == Head(items)
             hdr == IF it.hdr.target = "none" THEN it.hdr
                    ELSE [f \in DOMAIN it.hdr \cup {"line_idx"} |->
                            IF f = "line_idx"
                            THEN IF Len(acc.all_lines) > 0
                                 THEN Len(acc.all_lines) - 1 ELSE 0
                            ELSE it.hdr[f]]
         IN  AddItemsBehind(
                [all_lines |-> Append(acc.all_lines, it.text),
                 system_headers |->
                    IF hdr.target = "system"
                    THEN Append(acc.system_headers, hdr)
                    ELSE acc.system_headers,
                 network_headers |->
                    IF hdr.target = "network"
                    THEN Append(acc.network_headers, hdr)
                    ELSE acc.network_headers],
                Tail(items))

\* lines 283-298: the sorted items of a column are appended to all_lines and
\* their headers get their line_idx; acc = [all_lines, system_headers,
\* network_headers]
RECURSIVE AddItems(_, _)
AddItems(acc, items) ==
    IF items = <<>> THEN acc
    ELSE LET it == Head(items)
             hdr == IF it.hdr.target = "none" THEN it.hdr
                    ELSE [f \in DOMAIN it.hdr \cup {"line_idx"} |->
                            IF f = "line_idx" THEN Len(acc.all_lines)
                            ELSE it.hdr[f]]
         IN  AddItems(
                [all_lines |-> Append(acc.all_lines, it.text),
                 system_headers |->
                    IF hdr.target = "system"
                    THEN Append(acc.system_headers, hdr)
                    ELSE acc.system_headers,
                 network_headers |->
                    IF hdr.target = "network"
                    THEN Append(acc.network_headers, hdr)
                    ELSE acc.network_headers],
                Tail(items))

-----------------------------------------------------------------------------
(* extract_section_b, phases 2 and 3: parse_systems and parse_networks on  *)
(* all_lines, whose lines count from 0                                     *)

\* . without re.DOTALL, repeated
DotMany == NotMany(Dot)
DotPlus == NotPlus(Dot)
\* . under re.DOTALL, one or more times
AnyPlus == Cls({}, TRUE, 1, -1, FALSE)

\* r'\((?:[OLCS]|PART),\s*\d+\s*beds?\)'
BedsPattern ==
    <<Lit(<<"(">>),
      Alt(<< <<One({"O", "L", "C", "S"})>>, <<Lit(<<"P", "A", "R", "T">>)>> >>),
      Lit(<<",">>), Many(Space), Plus(Digit), Many(Space), Lit(<<"b", "e", "d">>),
      Cls({"s"}, FALSE, 0, 1, FALSE), Lit(<<")">>)>>

\* re.search of the bed pattern
HasBeds(s) == ReSearch(BedsPattern, s).ok

\* r'^[A-Z].*\((?:[OLCS]|PART),\s*\d+\s*beds?\)'
HospBedsLineRe == <<Bol, One(Upper), DotMany>> \o BedsPattern

\* r'^\((?:[OLCS]|PART),\s*\d+\s*beds?\)'
BedsStartRe == <<Bol>> \o BedsPattern

\* r'^[w\s]*\d{4}:\s+[A-Z]'
SystemStartRe ==
    <<Bol, Many({"w"} \cup Space), Exactly(Digit, 4), Lit(<<":">>),
      Plus(Space), One(Upper)>>

\* r'^\((.+?)\)\s*$'; r'^\(.+\)\s*$' and r'^\((.+)\)\s*$' match the same
\* lines with the same group, the text up to the last ')'
ClassLineRe ==
    <<Bol, Lit(<<"(">>), NotPlusLazy(Dot), Lit(<<")">>), Many(Space), Eol>>

\* 'System' in s or 'Health' in s
NamesSystem(s) == Contains(s, <<"S", "y", "s", "t", "e", "m">>) \/ Contains(s, <<"H", "e", "a", "l", "t", "h">>)

\* r'^(\d+\s+(hospitals|beds)|Contract|Totals)'
SummaryRe ==
    <<Bol, Alt(<< <<Plus(Digit), Plus(Space),
                    Alt(<< <<Lit(<<"h", "o", "s", "p", "i", "t", "a", "l",
                                   "s">>)>>, <<Lit(<<"b", "e", "d", "s">>)>> >>)>>,
                  <<Lit(<<"C", "o", "n", "t", "r", "a", "c", "t">>)>>, <<Lit(<<"T", "o", "t", "a", "l", "s">>)>> >>)>>

\* r'tel\.\s*([\d/\-]+)'
SysTelRe == <<Lit(<<"t", "e", "l", ".">>), Many(Space), Plus(Digit \cup {"/", "-"})>>

\* r',?\s*([A-Z]{2})\s*$'
StateTailRe ==
    <<Cls({","}, FALSE, 0, 1, FALSE), Many(Space), Exactly(Upper, 2),
      Many(Space), Eol>>

\* the state names n with line.startswith(n + ':'); no name followed by
\* ':' is a prefix of another, so the loops over SORTED_STATES find the same
\* name in whatever order equal lengths come
StatePrefixes(line) == {n \in US_STATES : StartsWith(line, n \o <<":">>)}
StateFound(line) ==
    IF StatePrefixes(line) = {} THEN <<>>
    ELSE CHOOSE n \in StatePrefixes(line) :
            \A m \in StatePrefixes(line) : Len(m) <= Len(n)

\* STATE_ABBREVS.get(name, '')
AbbrevOf(name) ==
    LET at == {i \in 1..Len(STATE_ABBREVS) : STATE_ABBREVS[i][1] = name}
    IN  IF at = {} THEN <<>> ELSE STATE_ABBREVS[SetMax(at)][2]

\* lines 351-364 and 669-678: the line and the next one or two non-empty
\* lines before end_idx, joined, hold the bed pattern
WrappedBeds(lines, i, end_idx, line) ==
    /\ i + 1 < end_idx
    /\ LET nl == Strip(lines[i + 2])
           look == IF nl = <<>> THEN line ELSE line \o <<" ">> \o nl
       IN  \/ nl # <<>> /\ HasBeds(look)
           \/ /\ i + 2 < end_idx
              /\ Strip(lines[i + 3]) # <<>>
              /\ HasBeds(look \o <<" ">> \o Strip(lines[i + 3]))

\* lines 333-337: the classification that the line gives, if it gives one
ClassificationOf(line, class_match) ==
    IF class_match.ok /\ NamesSystem(Group(line, class_match, 3, 3))
    THEN Group(line, class_match, 3, 3)
    ELSE <<>>

\* lines 325-368, the loop of parse_system_address_block from line i on
RECURSIVE SysAddrScan(_, _, _, _)
SysAddrLine(lines, i, end_idx, block_text, line) ==
    IF line = <<>> THEN SysAddrScan(lines, i + 1, end_idx, block_text)
    ELSE IF ClassificationOf(line, ReMatch(ClassLineRe, line)) # <<>>
    THEN [block_text |-> block_text, i |-> i + 1,
          classification |->
              ClassificationOf(line, ReMatch(ClassLineRe, line))]
    ELSE IF \/ StatePrefixes(line) # {}
            \/ ReMatch(HospBedsLineRe, line).ok
            \/ line[1] \in Upper /\ WrappedBeds(lines, i, end_idx, line)
    THEN [block_text |-> block_text, i |-> i, classification |-> <<>>]
    ELSE SysAddrScan(lines, i + 1, end_idx, block_text \o <<" ">> \o line)

SysAddrScan(lines, i, end_idx, block_text) ==
    IF i >= end_idx
    THEN [block_text |-> block_text, i |-> i, classification |-> <<>>]
    ELSE SysAddrLine(lines, i, end_idx, block_text, Strip(lines[i + 1]))

\* s.rsplit(',', 1)
RSplitComma(s) ==
    LET at == {k \in 1..Len(s) : s[k] = ","}
    IN  IF at = {} THEN <<s>>
        ELSE <<SubSeq(s, 1, SetMax(at) - 1),
               SubSeq(s, SetMax(at) + 1, Len(s))>>

\* block_text.split('Zip')[0] if 'Zip' in block_text else ''
BeforeZip(block_text) ==
    IF Contains(block_text, <<"Z", "i", "p">>)
    THEN Slice(block_text, 0, Find(block_text, <<"Z", "i", "p">>))
    ELSE <<>>

\* an address dict with no value
NoAddr ==
    [address |-> <<>>, city |-> <<>>, state |-> <<>>, zip |-> <<>>,
     telephone |-> <<>>, ceo |-> <<>>, classification |-> <<>>]

\* lines 373-385 and 556-565: zip, telephone and the name after it
AddrContact(addr, block_text, zip_match, tel_match) ==
    [addr EXCEPT
        !.zip = IF zip_match.ok THEN Group(block_text, zip_match, 3, 4)
                ELSE @,
        !.telephone = IF tel_match.ok THEN Group(block_text, tel_match, 3, 3)
                      ELSE @,
        !.ceo = IF tel_match.ok
                    /\ DropLead(Slice(block_text, MEnd(tel_match),
                                      Len(block_text))) # <<>>
                THEN RStrip(Strip(DropLead(Slice(block_text, MEnd(tel_match),
                                                 Len(block_text)))), {"."})
                ELSE @]

\* lines 389-398: state, address and city from the text before 'Zip';
\* whole is what parse_system_address_block does when the text before the
\* state has no comma (parse_networks leaves the address empty, lines 573-576)
AddrPlace(addr, addr_parts, state_match, parts, whole) ==
    IF addr_parts = <<>> \/ ~state_match.ok THEN addr
    ELSE [addr EXCEPT
            !.state = Group(Strip(addr_parts), state_match, 3, 3),
            !.address = IF Len(parts) = 2 THEN Strip(parts[1])
                        ELSE IF whole THEN parts[1] ELSE @,
            !.city = IF Len(parts) = 2 THEN Strip(parts[2]) ELSE @]

\* before_state = addr_parts[:state_match.start()].strip(): the offset is
\* one of addr_parts.strip() and is applied to addr_parts (lines 389-392)
BeforeState(addr_parts, state_match) ==
    IF state_match.ok
    THEN Strip(Slice(addr_parts, 0,
                     IF MStart(state_match) < Len(addr_parts)
                     THEN MStart(state_match) ELSE Len(addr_parts)))
    ELSE <<>>

\* lines 370-398 and 555-576 on the stripped block text
AddrParse(addr, block_text, addr_parts, whole) ==
    AddrPlace(AddrContact(addr, block_text, ReSearch(ZipBlockRe, block_text),
                          ReSearch(SysTelRe, block_text)),
              addr_parts, ReSearch(StateTailRe, Strip(addr_parts)),
              RSplitComma(BeforeState(addr_parts,
                              ReSearch(StateTailRe, Strip(addr_parts)))),
              whole)

\* what the loop of parse_system_address_block leaves, as (result, i)
SysAddrResult(scan) ==
    [result |-> AddrParse([NoAddr EXCEPT
                               !.classification = scan.classification],
                          Strip(scan.block_text),
                          BeforeZip(Strip(scan.block_text)), TRUE),
     i |-> scan.i]

\* parse_system_address_block(lines, start_idx, end_idx)
parse_system_address_block(lines, start_idx, end_idx) ==
    SysAddrResult(SysAddrScan(lines, start_idx, end_idx, <<>>))

\* lines 425-427 and 645-647: the line opens a summary block
IsSummaryLine(line) ==
    \/ StartsWith(line, <<"O", "w", "n", "e", "d", ",", " ", "l", "e", "a",
                          "s", "e", "d", ",", " ", "s", "p", "o", "n", "s",
                          "o", "r", "e", "d", ":">>)
    \/ StartsWith(line, <<"C", "o", "n", "t", "r", "a", "c", "t", "-", "m",
                          "a", "n", "a", "g", "e", "d", ":">>)
    \/ StartsWith(line, <<"T", "o", "t", "a", "l", "s", ":">>)

\* lines 441 and 651: a classification line
IsClassLine(line) == ReMatch(ClassLineRe, line).ok /\ NamesSystem(line)

\* r'^[A-Z][A-Z\s\.\'\-&+/]+'
NameStartRe ==
    <<Bol, One(Upper),
      Plus(Upper \cup Space \cup {".", "'", "-", "&", "+", "/"})>>

\* t under re.IGNORECASE: lo and up are t in lower and in upper case
AnyCase(lo, up) == [k \in 1..Len(lo) |-> One({lo[k], up[k]})]

\* r'^(Web address|Zip\s|tel\.|www\.)' with re.IGNORECASE
ContinuationStartRe ==
    <<Bol, Alt(<<AnyCase(<<"w", "e", "b", " ", "a", "d", "d", "r", "e", "s",
                           "s">>, <<"W", "E", "B", " ", "A", "D", "D",
                                            "R", "E", "S", "S">>),
                 AnyCase(<<"z", "i", "p">>, <<"Z", "I", "P">>) \o <<One(Space)>>,
                 AnyCase(<<"t", "e", "l", ".">>, <<"T", "E", "L", ".">>),
                 AnyCase(<<"w", "w", "w", ".">>, <<"W", "W", "W", ".">>)>>)>>

\* r'(,\s*[A-Z]{2},\s*Zip|beds?\))'
ContinuationInRe ==
    <<Alt(<< <<Lit(<<",">>), Many(Space), Exactly(Upper, 2), Lit(<<",">>),
               Many(Space), Lit(<<"Z", "i", "p">>)>>,
             <<Lit(<<"b", "e", "d">>), Cls({"s"}, FALSE, 0, 1, FALSE), Lit(<<")">>)>> >>)>>

\* lines 663-667
IsContinuation(line) ==
    \/ ReMatch(ContinuationStartRe, line).ok
    \/ ReSearch(ContinuationInRe, line).ok
    \/ line[1] \in Digit

\* lines 638-686: the tests that end collect_hospital_text at line i
CollectStops(lines, i, end_idx, collected, line) ==
    \/ StatePrefixes(line) # {}
    \/ IsSummaryLine(line)
    \/ IsClassLine(line)
    \/ collected # <<>> /\ ReMatch(HospBedsLineRe, line).ok
    \/ /\ collected # <<>>
       /\ ReMatch(NameStartRe, line).ok
       /\ ~IsContinuation(line)
       /\ \/ WrappedBeds(lines, i, end_idx, line)
          \/ /\ i + 1 < end_idx
             /\ ReMatch(BedsStartRe, Strip(lines[i + 2])).ok
    \/ ReMatch(SystemStartRe, line).ok

\* the loop of collect_hospital_text from line i on
RECURSIVE CollectScan(_, _, _, _)
CollectLine(lines, i, end_idx, collected, line) ==
    IF line = <<>> THEN CollectScan(lines, i + 1, end_idx, collected)
    ELSE IF CollectStops(lines, i, end_idx, collected, line)
    THEN [text |-> Strip(collected), i |-> i]
    ELSE CollectScan(lines, i + 1, end_idx, collected \o <<" ">> \o line)

CollectScan(lines, i, end_idx, collected) ==
    IF i >= end_idx THEN [text |-> Strip(collected), i |-> i]
    ELSE CollectLine(lines, i, end_idx, collected, Strip(lines[i + 1]))

\* collect_hospital_text(lines, i, end)
collect_hospital_text(lines, i, end_idx) ==
    CollectScan(lines, i, end_idx, <<>>)

\* lines 429-437: the lines of a summary block are passed, from line i on
RECURSIVE SummarySkip(_, _, _)
SummarySkip(lines, i, sys_end) ==
    IF i >= sys_end THEN i
    ELSE IF Strip(lines[i + 1]) = <<>> THEN i + 1
    ELSE IF ReMatch(SummaryRe, Strip(lines[i + 1])).ok
    THEN SummarySkip(lines, i + 1, sys_end)
    ELSE i

\* the look-ahead without its last test: a complete hospital line does
\* not end it
LookStopsNoHospital(next_l) ==
    \/ StatePrefixes(next_l) # {}
    \/ ReMatch(SystemStartRe, next_l).ok
    \/ StartsWith(next_l, <<"O", "w", "n", "e", "d", ",", " ", "l", "e", "a",
                            "s", "e", "d">>)
    \/ StartsWith(next_l, <<"C", "o", "n", "t", "r", "a", "c", "t", "-", "m",
                            "a", "n", "a", "g", "e", "d">>)
    \/ StartsWith(next_l, <<"T", "o", "t", "a", "l", "s", ":">>)

\* lines 492-502: the line ends the look-ahead for the bed pattern
LookStops(next_l) ==
    \/ StatePrefixes(next_l) # {}
    \/ ReMatch(SystemStartRe, next_l).ok
    \/ StartsWith(next_l, <<"O", "w", "n", "e", "d", ",", " ", "l", "e", "a",
                            "s", "e", "d">>)
    \/ StartsWith(next_l, <<"C", "o", "n", "t", "r", "a", "c", "t", "-", "m",
                            "a", "n", "a", "g", "e", "d">>)
    \/ StartsWith(next_l, <<"T", "o", "t", "a", "l", "s", ":">>)
    \/ ReMatch(HospBedsLineRe, next_l).ok

NoBeds == [found_beds |-> FALSE, combined |-> <<>>, lines_consumed |-> 0]

\* lines 484-509: the look-ahead of parse_systems, at its step lookahead
RECURSIVE LookBeds(_, _, _, _, _)
LookNext(lines, i, sys_end, combined, lookahead, next_l) ==
    IF next_l = <<>>
    THEN LookBeds(lines, i, sys_end, combined, lookahead + 1)
    ELSE IF LookStops(next_l) THEN NoBeds
    ELSE IF HasBeds(combined \o <<" ">> \o next_l)
    THEN [found_beds |-> TRUE, combined |-> combined \o <<" ">> \o next_l,
          lines_consumed |-> lookahead]
    ELSE LookBeds(lines, i, sys_end, combined \o <<" ">> \o next_l,
                  lookahead + 1)

LookBeds(lines, i, sys_end, combined, lookahead) ==
    IF lookahead > 2 \/ i + lookahead >= sys_end THEN NoBeds
    ELSE LookNext(lines, i, sys_end, combined, lookahead,
                  Strip(lines[i + lookahead + 1]))

\* lines 478-509: the bed pattern on the line or on the line and the next
\* one or two
FindBeds(lines, i, sys_end, line) ==
    IF HasBeds(line)
    THEN [found_beds |-> TRUE, combined |-> line, lines_consumed |-> 0]
    ELSE LookBeds(lines, i, sys_end, line, 1)

\* the entry of a candidate is appended whether or not it has a name
EmitEntryUnguarded(st, hdr, at, hospital_text, entry, next_i) ==
    [st EXCEPT
        !.i = next_i,
        !.entries = Append(@, entry),
        !.candidates = Append(@, [hdr |-> hdr, at |-> at,
                                  text |-> hospital_text,
                                  state |-> st.current_state,
                                  state_abbrev |-> st.current_state_abbrev,
                                  entry |-> entry,
                                  emitted |-> TRUE])]

\* lines 465-468 and 517-521: the candidate text is parsed and its entry is
\* appended if it has a name; candidates keeps, for each candidate, the
\* header it was parsed under, the line it started at, its text, the state
\* context it was parsed in and the entry built from it
EmitEntry(st, hdr, at, hospital_text, entry, next_i) ==
    [st EXCEPT
        !.i = next_i,
        !.entries = IF entry.hospital_name # <<>> THEN Append(@, entry)
                    ELSE @,
        !.candidates = Append(@, [hdr |-> hdr, at |-> at,
                                  text |-> hospital_text,
                                  state |-> st.current_state,
                                  state_abbrev |-> st.current_state_abbrev,
                                  entry |-> entry,
                                  emitted |-> entry.hospital_name # <<>>])]

\* lines 462-466 and 514-519
EmitSystem(st, hdr, at, head_text, got) ==
    EmitEntry(st, hdr, at, head_text \o <<" ">> \o got.text,
              build_entry(hdr, st.addr,
                          parse_hospital_text(head_text \o <<" ">> \o got.text,
                                              st.current_state,
                                              st.current_state_abbrev)),
              got.i)

\* lines 456-471: a line that starts with 'STATE:'
StateLine(lines, sys_end, hdr, st, line, state_found, after_state) ==
    IF after_state = <<>>
    THEN [st EXCEPT !.i = @ + 1,
                    !.current_state = state_found,
                    !.current_state_abbrev = AbbrevOf(state_found)]
    ELSE EmitSystem([st EXCEPT
                        !.current_state = state_found,
                        !.current_state_abbrev = AbbrevOf(state_found)],
                    hdr, st.i, after_state,
                    collect_hospital_text(lines, st.i + 1, sys_end))

\* a line without the bed pattern leaves the index where it is
OpenHospitalStay(lines, sys_end, hdr, st, look) ==
    IF look.found_beds
    THEN EmitSystem(st, hdr, st.i, look.combined,
                    collect_hospital_text(lines,
                                          st.i + 1 + look.lines_consumed,
                                          sys_end))
    ELSE st

\* lines 476-524: a line that may open a hospital
OpenHospital(lines, sys_end, hdr, st, look) ==
    IF look.found_beds
    THEN EmitSystem(st, hdr, st.i, look.combined,
                    collect_hospital_text(lines,
                                          st.i + 1 + look.lines_consumed,
                                          sys_end))
    ELSE [st EXCEPT !.i = @ + 1]

\* lines 418-524: one iteration of the while loop of parse_systems on
\* st = [i, addr, current_state, current_state_abbrev, entries, ...]
SystemsIter(lines, sys_end, hdr, st, line) ==
    IF line = <<>> THEN [st EXCEPT !.i = @ + 1]
    ELSE IF IsSummaryLine(line)
    THEN [st EXCEPT !.i = SummarySkip(lines, st.i + 1, sys_end)]
    ELSE IF IsClassLine(line)
    THEN [st EXCEPT
            !.i = @ + 1,
            !.addr.classification =
                IF @ = <<>> THEN Group(line, ReMatch(ClassLineRe, line), 3, 3)
                ELSE @]
    ELSE IF StatePrefixes(line) # {}
    THEN StateLine(lines, sys_end, hdr, st, line, StateFound(line),
                   Strip(Slice(line, Len(StateFound(line)) + 1, Len(line))))
    ELSE IF line[1] \in Upper /\ ~ReMatch(SystemStartRe, line).ok
    THEN OpenHospital(lines, sys_end, hdr, st,
                        FindBeds(lines, st.i, sys_end, line))
    ELSE [st EXCEPT !.i = @ + 1]

\* line 409: where the scope of header si (from 1) ends
ScopeEnd(lines, headers, si) ==
    IF si < Len(headers) THEN headers[si + 1].line_idx ELSE Len(lines)

\* lines 542-553: the loop over the address lines of a network, from line i
RECURSIVE NetAddrScan(_, _, _, _)
NetAddrLine(lines, i, net_end, block_text, line) ==
    IF line = <<>> THEN NetAddrScan(lines, i + 1, net_end, block_text)
    ELSE IF Contains(line, <<"t", "e", "l", ".">>)
    THEN [block_text |-> block_text \o <<" ">> \o line, i |-> i + 1]
    ELSE NetAddrScan(lines, i + 1, net_end, block_text \o <<" ">> \o line)

NetAddrScan(lines, i, net_end, block_text) ==
    IF i >= net_end THEN [block_text |-> block_text, i |-> i]
    ELSE NetAddrLine(lines, i, net_end, block_text, Strip(lines[i + 1]))

\* lines 555-576: the address dict of a network
NetAddr(block_text) ==
    AddrParse(NoAddr, Strip(block_text), BeforeZip(Strip(block_text)), FALSE)

\* lines 584-592: the nearest line before the header, at most 29 lines back
\* and never line 0, that is a state name
BackState(lines, net_start) ==
    LET low == IF net_start - 30 > 0 THEN net_start - 30 ELSE 0
        at == {j \in (low + 1)..(net_start - 1) :
                    j < Len(lines) /\ Strip(lines[j + 1]) \in US_STATES}
    IN  IF at = {} THEN <<>> ELSE Strip(lines[SetMax(at) + 1])

\* r'^[A-Z][A-Z\s\.\'\-&,+/()]+,\s*\d+'
NetHospRe ==
    <<Bol, One(Upper),
      Plus(Upper \cup Space
              \cup {".", "'", "-", "&", ",", "+", "/", "(", ")"}),
      Lit(<<",">>), Many(Space), Plus(Digit)>>

\* r'^(.+?),\s*(\d+\s+.+)' with re.DOTALL
NetNameRe ==
    <<Bol, AnyPlusLazy, Lit(<<",">>), Many(Space), Plus(Digit), Plus(Space),
      AnyPlus>>

\* r'^(.+?),\s*(P\s*O\s+Box.+)' with re.DOTALL
NetBoxRe ==
    <<Bol, AnyPlusLazy, Lit(<<",">>), Many(Space), Lit(<<"P">>), Many(Space),
      Lit(<<"O">>), Plus(Space), Lit(<<"B", "o", "x">>), AnyPlus>>

\* lines 765-770 with the stripped text and its match in hand; last is the
\* last piece of the second group
NetworkFrom(result, stripped, name_match, last) ==
    IF name_match.ok
    THEN _parse_address_block(
            [result EXCEPT
                !.hospital_name = Strip(Group(stripped, name_match, 2, 2))],
            Strip(Group(stripped, name_match, 5, last)))
    ELSE [result EXCEPT !.hospital_name = stripped]

\* lines 761-772
NetworkStripped(result, stripped) ==
    IF ReMatch(NetNameRe, stripped).ok
    THEN NetworkFrom(result, stripped, ReMatch(NetNameRe, stripped), 7)
    ELSE NetworkFrom(result, stripped, ReMatch(NetBoxRe, stripped), 10)

\* parse_network_hospital_text(text, state, state_abbrev)
parse_network_hospital_text(text, state, state_abbrev) ==
    NetworkStripped(NoResult(state, state_abbrev, <<"N", "e", "t", "w", "o", "r", "k",
                                                    "s">>), Strip(text))

\* the loop of collect_network_hospital_text from line i on
RECURSIVE NetCollectScan(_, _, _, _)
NetCollectLine(lines, i, end_idx, collected, line) ==
    IF line = <<>> THEN NetCollectScan(lines, i + 1, end_idx, collected)
    ELSE IF \/ line \in US_STATES
            \/ collected # <<>> /\ ReMatch(NetHospRe, line).ok
    THEN [text |-> Strip(collected), i |-> i]
    ELSE NetCollectScan(lines, i + 1, end_idx, collected \o <<" ">> \o line)

NetCollectScan(lines, i, end_idx, collected) ==
    IF i >= end_idx THEN [text |-> Strip(collected), i |-> i]
    ELSE NetCollectLine(lines, i, end_idx, collected, Strip(lines[i + 1]))

\* collect_network_hospital_text(lines, i, end)
collect_network_hospital_text(lines, i, end_idx) ==
    NetCollectScan(lines, i, end_idx, <<>>)

\* lines 612-620
EmitNetwork(st, hdr, at, head_text, got) ==
    EmitEntry(st, hdr, at, head_text \o <<" ">> \o got.text,
              build_entry(hdr, st.addr,
                          parse_network_hospital_text(
                              head_text \o <<" ">> \o got.text,
                              st.current_state, st.current_state_abbrev)),
              got.i)

\* lines 596-623: one iteration of the second while loop of parse_networks
NetworksIter(lines, net_end, hdr, st, line) ==
    IF line = <<>> THEN [st EXCEPT !.i = @ + 1]
    ELSE IF line \in US_STATES
    THEN [st EXCEPT !.i = @ + 1,
                    !.current_state = line,
                    !.current_state_abbrev = AbbrevOf(line)]
    ELSE IF ReMatch(NetHospRe, line).ok
    THEN EmitNetwork(st, hdr, st.i, line,
                     collect_network_hospital_text(lines, st.i + 1, net_end))
    ELSE [st EXCEPT !.i = @ + 1]

-----------------------------------------------------------------------------
(* The directory pipeline as a state machine                               *)

VARIABLES
    pc,         \* where the pipeline stands
    doc,        \* the page source: a sequence of pages, [width, lines] for
                \* the directory and [width, blocks] for Section B
    ext,        \* extract_text_from_pdf: page and line reached, both column
                \* buckets, full_text, hospital_entries
    text,       \* the text that extract_text_from_pdf returns
    fnt,        \* parse_hospitals_from_font_detection: lines,
                \* state_county_map, the entry reached (en), the hospital
                \* and the entry text in hand, hospitals
    leg,        \* parse_hospitals: lines, i, the context, hospitals
    sec,        \* extract_section_b: page, block and line reached,
                \* skip_line_indices, both column buckets, all_lines,
                \* system_headers, network_headers, page_ranges; then
                \* parse_systems and parse_networks: the header reached
                \* (si, from 1), whether its lines are being scanned, the
                \* line reached (i), its address dict, the state context,
                \* entries, and the candidates that were parsed
    call        \* a call of one function on its own: fn, arg, result

vars == <<pc, doc, ext, text, fnt, leg, sec, call>>

NoExt ==
    [pg |-> 1, ln |-> 1, left_items |-> <<>>, right_items |-> <<>>,
     full_text |-> <<>>, hospital_entries |-> <<>>]

NoFnt ==
    [lines |-> <<>>, state_county_map |-> <<>>, en |-> 1,
     hospital |-> Hospital, start |-> -1, entry_text |-> <<>>, stop |-> 0,
     hospitals |-> <<>>]

NoLeg ==
    [lines |-> <<>>, i |-> 0, ctx |-> NoContext, start |-> -1,
     entry_text |-> <<>>, stop |-> 0, hospitals |-> <<>>]

NoSec ==
    [pg |-> 1, blk |-> 1, ln |-> 1, skip_line_indices |-> {},
     left_items |-> <<>>, right_items |-> <<>>, all_lines |-> <<>>,
     system_headers |-> <<>>, network_headers |-> <<>>, page_ranges |-> <<>>,
     si |-> 1, scan |-> FALSE, i |-> 0, addr |-> NoAddr,
     current_state |-> <<>>, current_state_abbrev |-> <<>>,
     entries |-> <<>>, candidates |-> <<>>]

NoCall == [fn |-> "none", arg |-> <<>>, result |-> <<>>]

\* lines 83-160: one line of the page goes to its column bucket, and to
\* hospital_entries if its typography is that of an entry
ExtractLine ==
    /\ pc = "extract"
    /\ ext.pg <= Len(doc)
    /\ ext.ln <= Len(doc[ext.pg].lines)
    /\ LET page == doc[ext.pg]
           raw == page.lines[ext.ln]
           line_text == JoinSpans(raw.spans)
           item == [x |-> raw.x, y |-> raw.y, text |-> line_text]
           keep == Strip(line_text) # <<>>
           \* x < col_split, with col_split = page_width / 2
           left == 2 * raw.x < page.width
       IN  ext' = [ext EXCEPT
                !.ln = @ + 1,
                !.hospital_entries =
                    IF IsSkipLine(line_text) THEN @
                    ELSE @ \o DetectEntries(raw),
                !.left_items = IF keep /\ left THEN Append(@, item) ELSE @,
                !.right_items = IF keep /\ ~left THEN Append(@, item) ELSE @]
    /\ UNCHANGED <<pc, doc, text, fnt, leg, sec, call>>

\* lines 162-170: the page's columns are sorted and added to full_text
EndPage ==
    /\ pc = "extract"
    /\ ext.pg <= Len(doc)
    /\ ext.ln > Len(doc[ext.pg].lines)
    /\ ext' = [ext EXCEPT
            !.pg = @ + 1,
            !.ln = 1,
            !.left_items = <<>>,
            !.right_items = <<>>,
            !.full_text = @ \o JoinItems(SortByY(ext.left_items))
                            \o JoinItems(SortByY(ext.right_items))]
    /\ UNCHANGED <<pc, doc, text, fnt, leg, sec, call>>

\* lines 172-173: return normalize_text(full_text), hospital_entries
Return ==
    /\ pc = "extract"
    /\ ext.pg > Len(doc)
    /\ text' = normalize_text(ext.full_text)
    /\ pc' = "parse"
    /\ UNCHANGED <<doc, ext, fnt, leg, sec, call>>

\* lines 186-211: the text is split and the first pass builds the map
StartParse ==
    /\ pc = "parse"
    /\ LET lines == Split(text, "\n")
       IN  fnt' = [NoFnt EXCEPT
                !.lines = lines,
                !.state_county_map = FirstPass(lines, 0, NoContext, <<>>)]
    /\ pc' = "entry"
    /\ UNCHANGED <<doc, ext, text, leg, sec, call>>

\* lines 214-259: the next entry gets its hospital, context and entry text
AssembleEntry ==
    /\ pc = "entry"
    /\ fnt.en <= Len(ext.hospital_entries)
    /\ LET entry == ext.hospital_entries[fnt.en]
           start == EntryIndex(fnt.lines, entry.line_text)
           got == FontEntryText(fnt.lines, start)
           named == [Hospital EXCEPT
                        !.name = entry.name,
                        !.medicare_provider_number = entry.provider_number]
       IN  fnt' = [fnt EXCEPT
                !.hospital = EntryContext(named, fnt.state_county_map, start),
                !.start = start,
                !.entry_text = got.entry_text,
                !.stop = got.stop]
    /\ pc' = "assembled"
    /\ UNCHANGED <<doc, ext, text, leg, sec, call>>

\* lines 261-263: the entry text is parsed and the hospital is emitted
ParseEntry ==
    /\ pc = "assembled"
    /\ fnt' = [fnt EXCEPT
            !.hospitals =
                Append(@, parse_hospital_entry(fnt.hospital, fnt.entry_text)),
            !.en = @ + 1]
    /\ pc' = "entry"
    /\ UNCHANGED <<doc, ext, text, leg, sec, call>>

\* line 265, then parse_hospitals(text) starts on the same text (line 278)
StartLegacy ==
    /\ pc = "entry"
    /\ fnt.en > Len(ext.hospital_entries)
    /\ leg' = [NoLeg EXCEPT !.lines = Split(text, "\n")]
    /\ pc' = "legacy"
    /\ UNCHANGED <<doc, ext, text, fnt, sec, call>>

\* lines 281-354: one iteration of the loop of parse_hospitals
LegacyStep ==
    /\ pc = "legacy"
    /\ leg.i < Len(leg.lines)
    /\ leg' = LegacyIter(leg.lines, leg)
    /\ UNCHANGED <<pc, doc, ext, text, fnt, sec, call>>

\* line 356
LegacyReturn ==
    /\ pc = "legacy"
    /\ leg.i >= Len(leg.lines)
    /\ pc' = "done"
    /\ UNCHANGED <<doc, ext, text, fnt, leg, sec, call>>

-----------------------------------------------------------------------------
(* extract_section_b, phase 1, as steps                                    *)

\* lines 141-145: an index page or a page without a Section B mark is passed
SectionSkipPage ==
    /\ pc = "section"
    /\ sec.pg <= Len(doc)
    /\ classify_page(doc[sec.pg]) \in {"index", "skip"}
    /\ sec' = [sec EXCEPT !.pg = @ + 1]
    /\ UNCHANGED <<pc, doc, ext, text, fnt, leg, call>>

\* lines 163-276: one line of the block; a boilerplate line, a page number
\* and a line that a look-ahead has consumed are dropped, any other line
\* goes to its column bucket with the header found on it
SectionLine ==
    /\ pc = "section"
    /\ sec.pg <= Len(doc)
    /\ classify_page(doc[sec.pg]) \in {"systems", "networks"}
    /\ sec.blk <= Len(doc[sec.pg].blocks)
    /\ sec.ln <= Len(doc[sec.pg].blocks[sec.blk])
    /\ LET page == doc[sec.pg]
           block_lines == page.blocks[sec.blk]
           line == block_lines[sec.ln]
           line_text == JoinSpans(line.spans)
           line_text_norm == normalize_text(line_text)
           dropped == sec.ln \in sec.skip_line_indices
                        \/ IsSectionSkipLine(line_text)
           found == IF classify_page(page) = "systems"
                    THEN SystemLine(block_lines, sec.ln, sec.pg - 1)
                    ELSE [header_info |-> NetworkLine(line.spans, sec.pg - 1),
                          skip_line_indices |-> {}]
           item == [y |-> line.y, text |-> line_text_norm,
                    hdr |-> found.header_info]
           keep == ~dropped /\ Strip(line_text_norm) # <<>>
           \* x < col_split, with col_split = page_width / 2
           left == 2 * line.x < page.width
       IN  sec' = [sec EXCEPT
                !.ln = @ + 1,
                !.skip_line_indices =
                    IF dropped THEN @ ELSE @ \cup found.skip_line_indices,
                !.left_items = IF keep /\ left THEN Append(@, item) ELSE @,
                !.right_items = IF keep /\ ~left THEN Append(@, item) ELSE @]
    /\ UNCHANGED <<pc, doc, ext, text, fnt, leg, call>>

\* lines 160-162: the next block starts with no line to skip
SectionNextBlock ==
    /\ pc = "section"
    /\ sec.pg <= Len(doc)
    /\ classify_page(doc[sec.pg]) \in {"systems", "networks"}
    /\ sec.blk <= Len(doc[sec.pg].blocks)
    /\ sec.ln > Len(doc[sec.pg].blocks[sec.blk])
    /\ sec' = [sec EXCEPT !.blk = @ + 1, !.ln = 1, !.skip_line_indices = {}]
    /\ UNCHANGED <<pc, doc, ext, text, fnt, leg, call>>

\* lines 278-300: the columns are sorted and appended to all_lines, the
\* headers get their line_idx, the page its range
SectionEndPage ==
    /\ pc = "section"
    /\ sec.pg <= Len(doc)
    /\ classify_page(doc[sec.pg]) \in {"systems", "networks"}
    /\ sec.blk > Len(doc[sec.pg].blocks)
    /\ LET acc == AddItems(
                    AddItems([all_lines |-> sec.all_lines,
                              system_headers |-> sec.system_headers,
                              network_headers |-> sec.network_headers],
                             SortByY(sec.left_items)),
                    SortByY(sec.right_items))
       IN  sec' = [sec EXCEPT
                !.pg = @ + 1,
                !.blk = 1,
                !.ln = 1,
                !.left_items = <<>>,
                !.right_items = <<>>,
                !.all_lines = acc.all_lines,
                !.system_headers = acc.system_headers,
                !.network_headers = acc.network_headers,
                !.page_ranges =
                    Append(@, [page_num |-> sec.pg - 1,
                               start_idx |-> Len(sec.all_lines),
                               end_idx |-> Len(acc.all_lines)])]
    /\ UNCHANGED <<pc, doc, ext, text, fnt, leg, call>>

\* line 302: the document is closed; parse_systems and parse_networks
\* (lines 304-308) work from all_lines and the two header lists
SectionReturn ==
    /\ pc = "section"
    /\ sec.pg > Len(doc)
    /\ pc' = "systems"
    /\ UNCHANGED <<doc, ext, text, fnt, leg, sec, call>>

-----------------------------------------------------------------------------
(* extract_section_b, phases 2 and 3, as steps                             *)

\* the state context of the header before is kept
KeepState(st) == st

\* lines 414-415: current_state = "" and current_state_abbrev = ""
ResetState(st) ==
    [st EXCEPT !.current_state = <<>>, !.current_state_abbrev = <<>>]

\* lines 407-415: the next system header; its address block is parsed and
\* the state context starts empty
SystemsEnter ==
    /\ pc = "systems"
    /\ ~sec.scan
    /\ sec.si <= Len(sec.system_headers)
    /\ LET got == parse_system_address_block(
                      sec.all_lines,
                      sec.system_headers[sec.si].line_idx + 1,
                      ScopeEnd(sec.all_lines, sec.system_headers, sec.si))
       IN  sec' = ResetState([sec EXCEPT
                                !.scan = TRUE,
                                !.i = got.i,
                                !.addr = got.result])
    /\ UNCHANGED <<pc, doc, ext, text, fnt, leg, call>>

\* lines 417-524: one iteration of the while loop
SystemsLine ==
    /\ pc = "systems"
    /\ sec.scan
    /\ sec.i < ScopeEnd(sec.all_lines, sec.system_headers, sec.si)
    /\ sec' = SystemsIter(sec.all_lines,
                          ScopeEnd(sec.all_lines, sec.system_headers, sec.si),
                          sec.system_headers[sec.si], sec,
                          Strip(sec.all_lines[sec.i + 1]))
    /\ UNCHANGED <<pc, doc, ext, text, fnt, leg, call>>

\* line 417: the scope of the header is exhausted
SystemsLeave ==
    /\ pc = "systems"
    /\ sec.scan
    /\ sec.i >= ScopeEnd(sec.all_lines, sec.system_headers, sec.si)
    /\ sec' = [sec EXCEPT !.scan = FALSE, !.si = @ + 1]
    /\ UNCHANGED <<pc, doc, ext, text, fnt, leg, call>>

\* lines 526 and 305-308: parse_systems returns and parse_networks starts;
\* its entries are added to those of parse_systems
SystemsReturn ==
    /\ pc = "systems"
    /\ ~sec.scan
    /\ sec.si > Len(sec.system_headers)
    /\ sec' = [sec EXCEPT !.si = 1]
    /\ pc' = "networks"
    /\ UNCHANGED <<doc, ext, text, fnt, leg, call>>

\* lines 533-592: the next network header; its address lines are read and
\* the state context is looked up backwards
NetworksEnter ==
    /\ pc = "networks"
    /\ ~sec.scan
    /\ sec.si <= Len(sec.network_headers)
    /\ LET net_start == sec.network_headers[sec.si].line_idx
           got == NetAddrScan(
                      sec.all_lines, net_start + 1,
                      ScopeEnd(sec.all_lines, sec.network_headers, sec.si),
                      <<>>)
       IN  sec' = [sec EXCEPT
                !.scan = TRUE,
                !.i = got.i,
                !.addr = NetAddr(got.block_text),
                !.current_state = BackState(sec.all_lines, net_start),
                !.current_state_abbrev =
                    AbbrevOf(BackState(sec.all_lines, net_start))]
    /\ UNCHANGED <<pc, doc, ext, text, fnt, leg, call>>

\* lines 595-623: one iteration of the while loop
NetworksLine ==
    /\ pc = "networks"
    /\ sec.scan
    /\ sec.i < ScopeEnd(sec.all_lines, sec.network_headers, sec.si)
    /\ sec' = NetworksIter(sec.all_lines,
                           ScopeEnd(sec.all_lines, sec.network_headers,
                                    sec.si),
                           sec.network_headers[sec.si], sec,
                           Strip(sec.all_lines[sec.i + 1]))
    /\ UNCHANGED <<pc, doc, ext, text, fnt, leg, call>>

\* line 595: the scope of the header is exhausted
NetworksLeave ==
    /\ pc = "networks"
    /\ sec.scan
    /\ sec.i >= ScopeEnd(sec.all_lines, sec.network_headers, sec.si)
    /\ sec' = [sec EXCEPT !.scan = FALSE, !.si = @ + 1]
    /\ UNCHANGED <<pc, doc, ext, text, fnt, leg, call>>

\* lines 625 and 310: extract_section_b returns entries
NetworksReturn ==
    /\ pc = "networks"
    /\ ~sec.scan
    /\ sec.si > Len(sec.network_headers)
    /\ pc' = "done"
    /\ UNCHANGED <<doc, ext, text, fnt, leg, sec, call>>

-----------------------------------------------------------------------------
(* The field functions called on their own                                 *)

\* parse_hospital_entry(hospital, text) on a fresh Hospital
CallParseHospitalEntry ==
    /\ pc = "call"
    /\ call.fn = "parse_hospital_entry"
    /\ call' = [call EXCEPT
            !.result = parse_hospital_entry(call.arg.hospital, call.arg.text)]
    /\ pc' = "returned"
    /\ UNCHANGED <<doc, ext, text, fnt, leg, sec>>

\* _parse_address_block(result, remainder)
CallParseAddressBlock ==
    /\ pc = "call"
    /\ call.fn = "_parse_address_block"
    /\ call' = [call EXCEPT
            !.result = _parse_address_block(call.arg.result,
                                            call.arg.remainder)]
    /\ pc' = "returned"
    /\ UNCHANGED <<doc, ext, text, fnt, leg, sec>>

\* lines 465-466 and 517-519: parse_hospital_text, then build_entry
CallParseHospitalText ==
    /\ pc = "call"
    /\ call.fn = "parse_hospital_text"
    /\ call' = [call EXCEPT
            !.result = build_entry(call.arg.hdr, call.arg.addr,
                            parse_hospital_text(call.arg.text, call.arg.state,
                                                call.arg.state_abbrev))]
    /\ pc' = "returned"
    /\ UNCHANGED <<doc, ext, text, fnt, leg, sec>>

\* build_entry(hdr, addr, result) on its own
CallBuildEntry ==
    /\ pc = "call"
    /\ call.fn = "build_entry"
    /\ call' = [call EXCEPT
            !.result = build_entry(call.arg.hdr, call.arg.addr,
                                   call.arg.result)]
    /\ pc' = "returned"
    /\ UNCHANGED <<doc, ext, text, fnt, leg, sec>>

-----------------------------------------------------------------------------
(* The documents that the pipeline is run on                               *)

\* a span set in bold by its flags, one set in bold by its font, a plain one
Bold(t) == [text |-> t, flags |-> 16, font |-> <<"A", "r", "i", "a", "l">>]
BoldFont(t) == [text |-> t, flags |-> 0, font |-> <<"A", "r", "i", "a", "l", "-", "B",
                                                    "o", "l", "d">>]
Plain(t) == [text |-> t, flags |-> 0, font |-> <<"A", "r", "i", "a", "l">>]

\* the lines that a directory page is made of
DirLines ==
    [state1 |-> <<Bold(<<"A", "L", "A", "B", "A", "M", "A">>)>>,
     state2 |-> <<Bold(<<"A", "L", "A", "S", "K", "A">>)>>,
     county |-> <<Bold(<<"A", "B", "B", "E", "V", "I", "L", "L", "E",
                         "EMDASH", "H", "e", "n", "r", "y", " ", "C", "o", "u",
                         "n", "t", "y">>)>>,
     start1 |-> <<Bold(<<"A", "L", "P", "H", "A", " ", "C", "A", "R", "E">>), BoldFont(<<" ", "(", "0", "1", "0", "0", "0",
                                                   "1", ")">>),
                  Plain(<<",", " ", "1", " ", "E", "l", "m">>)>>,
     cont   |-> <<Plain(<<"S", "t", ",", " ", "Z", "i", "p", " ", "1", "2",
                          "3", "4", "5", "ENDASH", "6", "7", "8", "9", " ",
                          "t", "e", "l", ".", " ", "5", "5", "5", "ENDASH",
                          "0", "1", "0", "0">>)>>,
     aside  |-> <<Plain(<<"(", "f", "o", "r", "m", "e", "r", "l", "y">>)>>,
     start2 |-> <<Bold(<<"B", "E", "T", "A", " ", "C", "A", "R", "E">>), Bold(<<"(", "0", "2", "0", "0", "0", "2",
                                              ")">>),
                  Plain(<<",", " ", "2", " ", "O", "a", "k", ")">>)>>]

DirKinds == DOMAIN DirLines

\* the longest page of the default specification
MaxLines == 3

\* a page of one column: the lines of kinds ks, top to bottom
OneColumn(ks) ==
    [width |-> 2,
     lines |-> [i \in 1..Len(ks) |->
                    [x |-> 0, y |-> i, spans |-> DirLines[ks[i]]]]]

DirDocs ==
    {<<OneColumn(ks)>> :
        ks \in UNION {[1..n -> DirKinds] : n \in 1..MaxLines}}

Init ==
    /\ doc \in DirDocs
    /\ pc = "extract"
    /\ ext = NoExt
    /\ text = <<>>
    /\ fnt = NoFnt
    /\ leg = NoLeg
    /\ sec = NoSec
    /\ call = NoCall

Next ==
    \/ ExtractLine
    \/ EndPage
    \/ Return
    \/ StartParse
    \/ AssembleEntry
    \/ ParseEntry
    \/ StartLegacy
    \/ LegacyStep
    \/ LegacyReturn

\* the directory pipeline on the one-column pages of DirDocs
Spec == Init /\ [][Next]_vars

-----------------------------------------------------------------------------
(* The end-to-end scenario: one page of two columns                        *)

CountyLines ==
    [county |-> DirLines.county,
     county2 |-> <<Bold(<<"S", "T", ".", " ", "P", "A", "U", "L", "-", "R",
                          "a", "m", "s", "e", "y", " ", "C", "o", "u", "n",
                          "t", "y">>)>>]

\* what the two county headers name
CountyNames ==
    [county |-> [city |-> <<"A", "B", "B", "E", "V", "I", "L", "L", "E">>, county |-> <<"H", "e", "n", "r", "y", " ", "C",
                                                      "o", "u", "n", "t", "y">>],
     county2 |-> [city |-> <<"S", "T", ".", " ", "P", "A", "U", "L">>, county |-> <<"R", "a", "m", "s", "e", "y", " ",
                                                      "C", "o", "u", "n", "t", "y">>]]

\* the continuation of the right column, with the dashes of the printed page
\* and with plain hyphens
ContLines ==
    [cont |-> DirLines.cont,
     cont2 |-> <<Plain(<<"S", "t", ",", " ", "Z", "i", "p", " ", "1", "2",
                         "3", "4", "5", "-", "6", "7", "8", "9", " ", "t", "e",
                         "l", ".", " ", "5", "5", "5", "-", "0", "1", "0", "0">>)>>]

\* The page of the scenario: the left column holds the state header sk, the
\* county header ck and the record start, top to bottom; the right column
\* holds the continuation tk at its top.  The page source yields the four
\* lines in the order given by the permutation order.
ScenarioPage(sk, ck, tk, order) ==
    LET placed ==
            <<[x |-> 0, y |-> 1, spans |-> DirLines[sk]],
              [x |-> 0, y |-> 2, spans |-> CountyLines[ck]],
              [x |-> 0, y |-> 3, spans |-> DirLines.start1],
              [x |-> 1, y |-> 1, spans |-> ContLines[tk]]>>
    IN  [width |-> 2, lines |-> [i \in 1..4 |-> placed[order[i]]]]

ScenarioOrders == {o \in [1..4 -> 1..4] : \A i, j \in 1..4 : i # j => o[i] # o[j]}

InitScenario ==
    /\ \E sk \in {"state1", "state2"}, ck \in DOMAIN CountyLines,
          tk \in DOMAIN ContLines, order \in ScenarioOrders :
            doc = <<ScenarioPage(sk, ck, tk, order)>>
    /\ pc = "extract"
    /\ ext = NoExt
    /\ text = <<>>
    /\ fnt = NoFnt
    /\ leg = NoLeg
    /\ sec = NoSec
    /\ call = NoCall

SpecScenario == InitScenario /\ [][Next]_vars

\* C1: for the page of the scenario the pipeline (extract_text_from_pdf, then
\* parse_hospitals_from_font_detection) yields exactly one Hospital, whose
\* state, city and county are those of the two headers, whose zip_code is
\* the full ZIP+4 12345-6789 and whose telephone is 555-0100.
C1_EndToEnd ==
    \A sk \in {"state1", "state2"}, ck \in DOMAIN CountyLines,
       tk \in DOMAIN ContLines, order \in ScenarioOrders :
        (pc = "done" /\ doc = <<ScenarioPage(sk, ck, tk, order)>>) =>
            /\ Len(fnt.hospitals) = 1
            /\ fnt.hospitals[1].state = DirLines[sk][1].text
            /\ fnt.hospitals[1].city = CountyNames[ck].city
            /\ fnt.hospitals[1].county = CountyNames[ck].county
            /\ fnt.hospitals[1].zip_code = <<"1", "2", "3", "4", "5", "-", "6",
                                             "7", "8", "9">>
            /\ fnt.hospitals[1].telephone = <<"5", "5", "5", "-", "0", "1", "0",
                                              "0">>

\* what the pipeline does get right on the page of the scenario
C1_AllButZip ==
    \A sk \in {"state1", "state2"}, ck \in DOMAIN CountyLines,
       tk \in DOMAIN ContLines, order \in ScenarioOrders :
        (pc = "done" /\ doc = <<ScenarioPage(sk, ck, tk, order)>>) =>
            /\ Len(fnt.hospitals) = 1
            /\ fnt.hospitals[1].state = DirLines[sk][1].text
            /\ fnt.hospitals[1].city = CountyNames[ck].city
            /\ fnt.hospitals[1].county = CountyNames[ck].county
            /\ fnt.hospitals[1].zip_code = <<"1", "2", "3", "4", "5">>
            /\ fnt.hospitals[1].telephone = <<"5", "5", "5", "-", "0", "1", "0",
                                              "0">>

-----------------------------------------------------------------------------
(* Context of the directory records                                        *)

IsStateHeader(line) == Strip(line) \in {DirectoryStates[i] : i \in 1..NumDirectoryStates}
IsCountyHeader(line) == ReMatch(CountyHeaderRe, Strip(line)).ok

\* the state header lines before line i (lines count from 0)
StatesBefore(lines, i) == {j \in 0..(i - 1) : IsStateHeader(lines[j + 1])}

\* the text of the nearest state header before line i, empty if there is none
NearestState(lines, i) ==
    IF StatesBefore(lines, i) = {} THEN <<>>
    ELSE Strip(lines[SetMax(StatesBefore(lines, i)) + 1])

\* line i comes after a state header with no county header in between
AfterStateHeader(lines, i) ==
    \E j \in StatesBefore(lines, i) :
        \A k \in (j + 1)..(i - 1) : ~IsCountyHeader(lines[k + 1])

\* C3: a Hospital of parse_hospitals_from_font_detection whose start line is
\* found in the line stream has as its state the nearest state header line
\* that precedes the start line, and an empty state only if none precedes.
C3_NearestStateHeader ==
    (pc = "assembled" /\ fnt.start >= 0) =>
        fnt.hospital.state = NearestState(fnt.lines, fnt.start)

\* C4: a state header clears the second-level context: a Hospital whose
\* start line lies after a state header and before the next city-county
\* header has empty county and city, in parse_hospitals_from_font_detection
\* and in parse_hospitals.
C4_StateClearsCounty ==
    /\ (pc = "assembled" /\ fnt.start >= 0
            /\ AfterStateHeader(fnt.lines, fnt.start)) =>
                (fnt.hospital.county = <<>> /\ fnt.hospital.city = <<>>)
    /\ (pc \in {"legacy", "done"} /\ leg.start >= 0
            /\ AfterStateHeader(leg.lines, leg.start)) =>
                LET last == leg.hospitals[Len(leg.hospitals)]
                IN  last.county = <<>> /\ last.city = <<>>

\* how many times character c occurs in s
Count(s, c) == Cardinality({i \in 1..Len(s) : s[i] = c})

\* the text has more "(" than ")": it ends inside a parenthetical aside
InsideAside(s) == Count(s, "(") > Count(s, ")")

\* the record-start patterns of the two directory assemblers
IsRecordStart(line) ==
    \/ ReMatch(NextHospitalRe, Strip(line)).ok
    \/ ReMatch(NextMilitaryRe, Strip(line)).ok
    \/ ReMatch(HospitalRe, Strip(line)).ok
    \/ ReMatch(HospitalNoIdRe, Strip(line)).ok

\* C5: while a record blob is assembled, a line that matches a record-start
\* pattern does not end the record when the lines accumulated so far hold
\* more "(" than ")".
C5_ParenthesisSafety ==
    /\ (pc = "assembled" /\ fnt.start >= 0 /\ fnt.stop < Len(fnt.lines)
            /\ IsRecordStart(fnt.lines[fnt.stop + 1])) =>
                ~InsideAside(fnt.entry_text)
    /\ (pc \in {"legacy", "done"} /\ leg.start >= 0 /\ leg.i < Len(leg.lines)
            /\ leg.i > leg.start
            /\ IsRecordStart(leg.lines[leg.i + 1])) =>
                ~InsideAside(leg.entry_text)

\* a header of either rank
IsHeaderLine(line) == IsStateHeader(line) \/ IsCountyHeader(line)

\* the first line after line start that is a header of either rank or a
\* record start of the font-detection assembler, the number of lines if
\* there is none (lines count from 0)
FontStopLine(lines, start) ==
    SetMin({j \in (start + 1)..(Len(lines) - 1) :
                \/ IsHeaderLine(lines[j + 1])
                \/ ReMatch(NextHospitalRe, Strip(lines[j + 1])).ok
                \/ ReMatch(NextMilitaryRe, Strip(lines[j + 1])).ok}
           \cup {Len(lines)})

\* the same for the record starts of parse_hospitals
LegacyStopLine(lines, start) ==
    SetMin({j \in (start + 1)..(Len(lines) - 1) :
                \/ IsHeaderLine(lines[j + 1])
                \/ ReMatch(HospitalRe, Strip(lines[j + 1])).ok
                \/ ReMatch(HospitalNoIdRe, Strip(lines[j + 1])).ok}
           \cup {Len(lines)})

\* C11: the assembly of a directory record stops at the first line after
\* its start line that is a state header, a city-county header or a record
\* start, or at the end of the stream, in both assemblers: no header line
\* is read into a blob.
C11_StopAtHeader ==
    /\ (pc = "assembled" /\ fnt.start >= 0) =>
            fnt.stop = FontStopLine(fnt.lines, fnt.start)
    /\ (pc \in {"legacy", "done"} /\ leg.start >= 0) =>
            leg.stop = LegacyStopLine(leg.lines, leg.start)

\* what does hold: the assembly stops at a city-county header
C11_StopAtCounty ==
    /\ (pc = "assembled" /\ fnt.start >= 0) =>
            \A j \in (fnt.start + 1)..(fnt.stop - 1) :
                ~IsCountyHeader(fnt.lines[j + 1])
    /\ (pc \in {"legacy", "done"} /\ leg.start >= 0) =>
            \A j \in (leg.start + 1)..(leg.stop - 1) :
                ~IsCountyHeader(leg.lines[j + 1])

-----------------------------------------------------------------------------
(* parse_hospitals_from_font_detection called on its own                   *)

\* lines of a normalized text
ApiLines ==
    {<<"A", "B", "B", "E", "V", "I", "L", "L", "E", "-", "H", "e", "n", "r",
       "y", " ", "C", "o", "u", "n", "t", "y">>,
     <<"A", "L", "P", "H", "A", " ", "C", "A", "R", "E", " ", "(", "0", "1",
       "0", "0", "0", "1", ")", ",", " ", "1", " ", "E", "l", "m">>,
     <<"S", "t", ",", " ", "Z", "i", "p", " ", "1", "2", "3", "4", "5", "-",
       "6", "7", "8", "9", " ", "t", "e", "l", ".", " ", "5", "5", "5", "-",
       "0", "1", "0", "0">>}

\* detected entries: one whose line_text is a line of the pool, and one whose
\* line_text has drifted from it by a doubled space
ApiEntries ==
    {[name |-> <<"A", "L", "P", "H", "A", " ", "C", "A", "R", "E">>, provider_number |-> <<"0", "1", "0", "0", "0", "1">>,
      line_text |-> <<"A", "L", "P", "H", "A", " ", "C", "A", "R", "E", " ",
                      "(", "0", "1", "0", "0", "0", "1", ")", ",", " ", "1",
                      " ", "E", "l", "m">>],
     [name |-> <<"A", "L", "P", "H", "A", " ", " ", "C", "A", "R", "E">>, provider_number |-> <<"0", "1", "0", "0", "0", "1">>,
      line_text |-> <<"A", "L", "P", "H", "A", " ", " ", "C", "A", "R", "E",
                      " ", "(", "0", "1", "0", "0", "0", "1", ")", ",", " ",
                      "1", " ", "E", "l", "m">>]}

MaxApiLines == 2
MaxApiEntries == 2

SeqsUpTo(S, n) == UNION {[1..k -> S] : k \in 0..n}

RECURSIVE JoinLines(_)
JoinLines(lines) ==
    IF lines = <<>> THEN <<>>
    ELSE Head(lines) \o <<"\n">> \o JoinLines(Tail(lines))

InitApi ==
    /\ doc = <<>>
    /\ pc = "parse"
    /\ \E es \in SeqsUpTo(ApiEntries, MaxApiEntries) :
            ext = [NoExt EXCEPT !.hospital_entries = es]
    /\ \E ls \in SeqsUpTo(ApiLines, MaxApiLines) : text = JoinLines(ls)
    /\ fnt = NoFnt
    /\ leg = NoLeg
    /\ sec = NoSec
    /\ call = NoCall

NextApi ==
    \/ StartParse
    \/ AssembleEntry
    \/ ParseEntry
    \/ StartLegacy
    \/ LegacyStep
    \/ LegacyReturn

SpecApi == InitApi /\ [][NextApi]_vars

\* the entry's line text is found at no line of the text (line 225)
Unfound(entry) ==
    \A i \in 1..Len(Split(text, "\n")) :
        LET line == Split(text, "\n")[i]
        IN  /\ ~Contains(line, entry.line_text)
            /\ ~StartsWith(line, SubSeq(entry.line_text, 1,
                    IF Len(entry.line_text) < 30 THEN Len(entry.line_text)
                    ELSE 30))

OnlyNameAndNumber(h) ==
    \A f \in DOMAIN h : f \notin {"name", "medicare_provider_number"} => h[f] = <<>>

\* C9: parse_hospitals_from_font_detection emits exactly one Hospital per
\* detected entry, in detection order; an entry whose line text is not found
\* in the line stream is still emitted, with its detected name and provider
\* number and every other field empty; and nothing is raised.
C9_OnePerEntry ==
    /\ pc \in {"entry", "assembled"} => Len(fnt.hospitals) = fnt.en - 1
    /\ pc \in {"legacy", "done"} =>
            Len(fnt.hospitals) = Len(ext.hospital_entries)
    /\ \A k \in 1..Len(fnt.hospitals) :
        LET h == fnt.hospitals[k]
            entry == ext.hospital_entries[k]
        IN  /\ h.name = entry.name
            /\ h.medicare_provider_number = entry.provider_number
            /\ Unfound(entry) => OnlyNameAndNumber(h)
            /\ \A f \in DOMAIN h : h[f] # Raised

\* an entry that is not found is emitted after one that is, from a text that
\* holds a zip code
C9_Witness ==
    /\ pc = "done"
    /\ Len(fnt.hospitals) = 2
    /\ ~Unfound(ext.hospital_entries[1])
    /\ fnt.hospitals[1].zip_code # <<>>
    /\ Unfound(ext.hospital_entries[2])
    /\ OnlyNameAndNumber(fnt.hospitals[2])

-----------------------------------------------------------------------------
(* The order of the line stream                                            *)

MaxOrderPages == 2
MaxOrderLines == 2

DigitNames == <<"1", "2", "3", "4", "5", "6", "7", "8", "9">>

\* the text of the k-th line of a plan
LineName(k) == <<"l", "i", "n", "e", " ">> \o <<DigitNames[k]>>

\* where a line stands: its page, its x (0 left, 1 right of the middle of a
\* page of width 2) and its y
OrderPlacings ==
    [page : 1..MaxOrderPages, x : {0, 1}, y : 1..MaxOrderLines]

\* a plan lists the lines of a document in the order the page source yields
\* them
OrderPlans == SeqsUpTo(OrderPlacings, MaxOrderLines)

\* the lines of page p of a plan, each with its own text
PlanLines(plan, p) ==
    LET named == [k \in 1..Len(plan) |->
                    [page |-> plan[k].page, x |-> plan[k].x, y |-> plan[k].y,
                     spans |-> <<Plain(LineName(k))>>]]
        mine == SelectSeq(named, LAMBDA l : l.page = p)
    IN  [i \in 1..Len(mine) |->
            [x |-> mine[i].x, y |-> mine[i].y, spans |-> mine[i].spans]]

DirectoryDoc(plan) ==
    [p \in 1..MaxOrderPages |-> [width |-> 2, lines |-> PlanLines(plan, p)]]

\* a Section B page carries a footer that marks it; a page without lines is
\* blank
SectionFooter ==
    [x |-> 0, y |-> 0, spans |-> <<Plain(<<"A", "H", "A", " ", "G", "u", "i",
                                           "d", "e", " ", "S", "e", "c", "t", "i",
                                           "o", "n", " ", "B">>)>>]

SectionDoc(plan) ==
    [p \in 1..MaxOrderPages |->
        [width |-> 2,
         blocks |-> IF PlanLines(plan, p) = <<>> THEN <<>>
                    ELSE <<PlanLines(plan, p), <<SectionFooter>>>>]]

InitOrder ==
    /\ \E plan \in OrderPlans :
        \/ doc = DirectoryDoc(plan) /\ pc = "extract"
        \/ doc = SectionDoc(plan) /\ pc = "section"
    /\ ext = NoExt
    /\ text = <<>>
    /\ fnt = NoFnt
    /\ leg = NoLeg
    /\ sec = NoSec
    /\ call = NoCall

NextOrder ==
    \/ ExtractLine
    \/ EndPage
    \/ Return
    \/ SectionSkipPage
    \/ SectionLine
    \/ SectionNextBlock
    \/ SectionEndPage
    \/ SectionReturn

SpecOrder == InitOrder /\ [][NextOrder]_vars

PageLines(page) ==
    IF "blocks" \in DOMAIN page THEN Flatten(page.blocks) ELSE page.lines

\* the lines of the document other than the footers, each with its place
Placed ==
    {pl \in UNION {
        {[page |-> p, left |-> 2 * PageLines(doc[p])[i].x < doc[p].width,
          y |-> PageLines(doc[p])[i].y,
          text |-> JoinSpans(PageLines(doc[p])[i].spans)] :
            i \in 1..Len(PageLines(doc[p]))} : p \in 1..Len(doc)} :
        StartsWith(pl.text, <<"l", "i", "n", "e", " ">>)}

PlaceOf(t) == CHOOSE pl \in Placed : pl.text = t

\* the Document Line Stream as far as it is built
Stream ==
    IF pc \in {"section", "systems"} THEN sec.all_lines
    ELSE SelectSeq(Split(IF pc = "parse" THEN text ELSE ext.full_text, "\n"),
                   LAMBDA l : l # <<>>)

\* a comes before b in (page, column, y)
Before(a, b) ==
    \/ a.page < b.page
    \/ a.page = b.page /\ a.left /\ ~b.left
    \/ a.page = b.page /\ a.left = b.left /\ a.y < b.y

\* C7: in both variants the line stream is ordered by (page, column, y):
\* the lines of page N precede those of page N+1, within a page the lines
\* of the left column precede those of the right column whatever their y,
\* and within a column the lines come in ascending y; and the finished
\* stream holds every line of the document once.
C7_StreamOrder ==
    /\ \A i, j \in 1..Len(Stream) :
            i < j => ~Before(PlaceOf(Stream[j]), PlaceOf(Stream[i]))
    /\ pc \in {"parse", "systems"} =>
            /\ {Stream[i] : i \in 1..Len(Stream)} = {pl.text : pl \in Placed}
            /\ Len(Stream) = Cardinality(Placed)

\* Section B: two lines of one page arrive right column first, the right one
\* higher on the page, and leave left column first
C7_Witness ==
    /\ pc = "systems"
    /\ Len(Stream) = 2
    /\ PlaceOf(Stream[1]).page = PlaceOf(Stream[2]).page
    /\ PlaceOf(Stream[1]).left /\ ~PlaceOf(Stream[2]).left
    /\ PlaceOf(Stream[1]).y > PlaceOf(Stream[2]).y
    /\ Stream[1] = LineName(2)

-----------------------------------------------------------------------------
(* The field functions on families of blobs                                *)

\* the labelled segments that a directory blob is made of
EntrySegments ==
    {<<"C", "o", "n", "t", "r", "o", "l", ":", " ", "V", "o", "l", "u", "n",
       "t", "a", "r", "y", " ", "n", "o", "n", "p", "r", "o", "f", "i", "t">>,
     <<"C", "o", "n", "t", "r", "o", "l", ":", " ", "S", "t", "a", "t", "e">>,
     <<"S", "e", "r", "v", "i", "c", "e", ":", " ", "G", "e", "n", "e", "r",
       "a", "l", " ", "m", "e", "d", "i", "c", "a", "l">>,
     <<"S", "t", "a", "f", "f", "e", "d", " ", "B", "e", "d", "s", ":", " ",
       "4", "2">>,
     <<"C", "N", "O", ":", " ", "M", "a", "r", "y", " ", "J", "o", "n", "e",
       "s">>,
     <<"W", "e", "b", " ", "a", "d", "d", "r", "e", "s", "s", ":", " ", "w",
       "w", "w", ".", "a", ".", "o", "r", "g">>}

\* the parts that the remainder of a Section B hospital line is made of
BlockSegments ==
    {<<"1", "0", "0", " ", "M", "a", "i", "n", " ", "S", "t", ",", " ", "S",
       "p", "r", "i", "n", "g", "f", "i", "e", "l", "d", ",", " ", "I", "L",
       ",", " ", "Z", "i", "p", " ", "6", "2", "7", "0", "1">>,
     <<"5", " ", "L", "a", "k", "e", " ", "R", "d", ",", " ", "E", "r", "i",
       "e", ",", " ", "Z", "i", "p", " ", "1", "6", "5", "0", "1", "-", "1",
       "2", "3", "4">>,
     <<"t", "e", "l", ".", " ", "2", "1", "7", "/", "5", "5", "5", "-", "0",
       "1", "0", "0", ",", " ", "A", "l", " ", "B", "o", ",", " ", "C", "E",
       "O">>,
     <<"t", "e", "l", ".", " ", "8", "1", "4", "/", "5", "5", "5", "-", " ",
       "0", "1", "0", "0">>,
     <<"W", "e", "b", " ", "a", "d", "d", "r", "e", "s", "s", ":", " ", "w",
       "w", "w", ".", "x", ".", "o", "r", "g">>}

MaxSegments == 3

RECURSIVE JoinWith(_, _)
JoinWith(parts, sep) ==
    IF parts = <<>> THEN <<>>
    ELSE IF Len(parts) = 1 THEN parts[1]
    ELSE parts[1] \o sep \o JoinWith(Tail(parts), sep)

EntryBlobs ==
    {JoinWith(parts, <<" ">>) : parts \in SeqsUpTo(EntrySegments, MaxSegments)}

BlockRemainders ==
    {JoinWith(parts, <<";", " ">>) : parts \in SeqsUpTo(BlockSegments, MaxSegments)}

\* 'NAME (code, N beds) street, city, ST, Zip Z'
HospitalLine(name, code, beds, street, city, st, zip) ==
    name \o <<" ", "(">> \o code \o <<",", " ">> \o beds \o <<" ", "b", "e", "d", "s", ")", " ">> \o street
        \o <<",", " ">> \o city \o <<",", " ">> \o st \o <<",", " ", "Z", "i", "p", " ">> \o zip

LineNames == {<<"C", "I", "T", "Y", " ", "G", "E", "N", "E", "R", "A", "L">>, <<"S", "T", ".", " ", "M", "A", "R", "Y",
                                  "'", "S">>}
LineCodes == {<<"O">>, <<"L">>, <<"C">>, <<"S">>, <<"P", "A", "R", "T">>}
LineBeds == {<<"1", "2", "0">>, <<"7">>}
LineStreets == {<<"1", "0", "0", " ", "M", "a", "i", "n", " ", "S", "t">>, <<"P", " ", "O", " ", "B", "o", "x", " ",
                                   "5">>}
LineCities == {<<"S", "p", "r", "i", "n", "g", "f", "i", "e", "l", "d">>, <<"R", "e", "n", "o">>}
LineStates == {<<"I", "L">>, <<"N", "V">>}
LineZips == {<<"6", "2", "7", "0", "1">>, <<"8", "9", "5", "0", "1", "-", "1", "2", "3", "4">>}

HospitalLines ==
    {HospitalLine(name, code, beds, street, city, st, zip) :
        name \in LineNames, code \in LineCodes, beds \in LineBeds,
        street \in LineStreets, city \in LineCities, st \in LineStates,
        zip \in LineZips}

\* the system header and address block that build_entry is given
LineHeader ==
    [name |-> <<"A", "L", "P", "H", "A", " ", "H", "E", "A", "L", "T", "H">>, id |-> <<"0", "0", "0", "1">>, type |-> <<"N", "P">>,
     section |-> <<"S", "y", "s", "t", "e", "m", "s">>]
LineAddress == [address |-> <<"9", " ", "P", "a", "r", "k", " ", "R", "d">>, zip |-> <<"6", "0", "6", "0", "1">>]

InitEntry ==
    /\ pc = "call"
    /\ \/ \E blob \in EntryBlobs :
            call = [fn |-> "parse_hospital_entry",
                    arg |-> [hospital |-> Hospital, text |-> blob],
                    result |-> <<>>]
       \/ \E remainder \in BlockRemainders :
            call = [fn |-> "_parse_address_block",
                    arg |-> [result |-> NoResult(<<>>, <<>>, <<"N", "e", "t", "w", "o", "r", "k",
                                                               "s">>),
                             remainder |-> remainder],
                    result |-> <<>>]
       \/ \E line \in HospitalLines, known \in BOOLEAN :
            call = [fn |-> "parse_hospital_text",
                    arg |-> [text |-> line,
                             state |-> IF known THEN <<"O", "H", "I", "O">> ELSE <<>>,
                             state_abbrev |-> IF known THEN <<"O", "H">> ELSE <<>>,
                             hdr |-> LineHeader, addr |-> LineAddress],
                    result |-> <<>>]
    /\ doc = <<>>
    /\ ext = NoExt
    /\ text = <<>>
    /\ fnt = NoFnt
    /\ leg = NoLeg
    /\ sec = NoSec

NextEntry ==
    \/ CallParseHospitalEntry
    \/ CallParseAddressBlock
    \/ CallParseHospitalText

SpecEntry == InitEntry /\ [][NextEntry]_vars

Returned(fn) == pc = "returned" /\ call.fn = fn

\* C2: for every hospital line 'NAME (code, N beds) street, city, ST, Zip Z'
\* with code in {O, L, C, S, PART}, parse_hospital_text followed by
\* build_entry gives ownership_type = code, staffed_beds = N,
\* address = street, city = city, state_abbrev = ST and zip_code = Z.
C2_HospitalLine ==
    \A name \in LineNames, code \in LineCodes, beds \in LineBeds,
       street \in LineStreets, city \in LineCities, st \in LineStates,
       zip \in LineZips :
        (/\ Returned("parse_hospital_text")
         /\ call.arg.text = HospitalLine(name, code, beds, street, city, st, zip))
        => /\ call.result.ownership_type = code
           /\ call.result.staffed_beds = beds
           /\ call.result.address = street
           /\ call.result.city = city
           /\ call.result.state_abbrev = st
           /\ call.result.zip_code = zip

\* what the two functions do give on such a line: the city stays in the
\* address and the city field stays empty
C2_CityInAddress ==
    \A name \in LineNames, code \in LineCodes, beds \in LineBeds,
       street \in LineStreets, city \in LineCities, st \in LineStates,
       zip \in LineZips :
        (/\ Returned("parse_hospital_text")
         /\ call.arg.text = HospitalLine(name, code, beds, street, city, st, zip))
        => /\ call.result.hospital_name = name
           /\ call.result.ownership_type = code
           /\ call.result.staffed_beds = beds
           /\ call.result.address = street \o <<",", " ">> \o city
           /\ call.result.city = <<>>
           /\ call.result.state_abbrev = st
           /\ call.result.zip_code = zip

ControlTexts == {<<"V", "o", "l", "u", "n", "t", "a", "r", "y", " ", "n",
                   "o", "n", "p", "r", "o", "f", "i", "t">>, <<"S", "t", "a", "t", "e">>}
ServiceTexts == {<<"G", "e", "n", "e", "r", "a", "l", " ", "m", "e", "d",
                   "i", "c", "a", "l">>}
BedTexts == {<<"4", "2">>}

\* C6: for every blob '... Control: <c> Service: <s> Staffed Beds: <n>' with
\* <c> and <s> non-empty texts that hold no field label and <n> a digit
\* string, parse_hospital_entry sets control to <c>, services to <s> and
\* staffed_beds to <n>.
C6_NonInterference ==
    \A c \in ControlTexts, sv \in ServiceTexts, n \in BedTexts :
        (/\ Returned("parse_hospital_entry")
         /\ call.arg.text = <<"C", "o", "n", "t", "r", "o", "l", ":", " ">> \o c \o <<" ", "S", "e", "r", "v", "i", "c",
                                                    "e", ":", " ">> \o sv
                                \o <<" ", "S", "t", "a", "f", "f", "e", "d",
                                     " ", "B", "e", "d", "s", ":", " ">> \o n)
        => /\ call.result.control = c
           /\ call.result.services = sv
           /\ call.result.staffed_beds = n

\* the example of the claim: Voluntary nonprofit / General medical / 42
C6_Example ==
    (/\ Returned("parse_hospital_entry")
     /\ call.arg.text =
          <<"C", "o", "n", "t", "r", "o", "l", ":", " ", "V", "o", "l", "u",
            "n", "t", "a", "r", "y", " ", "n", "o", "n", "p", "r", "o", "f",
            "i", "t", " ", "S", "e", "r", "v", "i", "c", "e", ":", " ", "G",
            "e", "n", "e", "r", "a", "l", " ", "m", "e", "d", "i", "c", "a",
            "l", " ", "S", "t", "a", "f", "f", "e", "d", " ", "B", "e", "d",
            "s", ":", " ", "4", "2">>)
    => /\ call.result.control = <<"V", "o", "l", "u", "n", "t", "a", "r",
                                  "y", " ", "n", "o", "n", "p", "r", "o", "f",
                                  "i", "t">>
       /\ call.result.services = <<"G", "e", "n", "e", "r", "a", "l", " ",
                                   "m", "e", "d", "i", "c", "a", "l">>
       /\ call.result.staffed_beds = <<"4", "2">>

\* none of the patterns of field f of parse_hospital_entry matches the blob
EntryUnmatched(f, blob) ==
    CASE f = "zip_code" -> ~ReSearch(ZipRe, blob).ok
      [] f = "address" ->
            ~ReSearch(AddrRe, blob).ok /\ ~ReSearch(AddrFallbackRe, blob).ok
      [] f = "telephone" -> ~ReSearch(TelRe, blob).ok
      [] f \in ContactFields -> ~ReSearch(contact_patterns[f], blob).ok
      [] f = "web_address" ->
            ~ReSearch(WebRe, blob).ok /\ ~ReSearch(WebAltRe, blob).ok
      [] f = "control" -> ~ReSearch(ControlRe, blob).ok
      [] f = "services" -> ~ReSearch(ServiceRe, blob).ok
      [] f = "staffed_beds" -> ~ReSearch(BedsRe, blob).ok
      [] f = "personnel" -> ~ReSearch(PersonnelRe, blob).ok
      [] OTHER -> TRUE

\* none of the patterns of field f of _parse_address_block matches
BlockUnmatched(f, remainder) ==
    CASE f = "zip_code" -> ~ReSearch(ZipBlockRe, remainder).ok
      [] f \in {"address", "state_abbrev"} ->
            /\ ~ReMatch(AddrStateRe, remainder).ok
            /\ ~ReMatch(AddrZipRe, remainder).ok
      [] f \in {"telephone", "contact"} -> ~ReSearch(TelBlockRe, remainder).ok
      [] f = "web_address" -> ~ReSearch(WebBlockRe, remainder).ok
      [] OTHER -> TRUE

\* the blob holds no token shaped like a web address
NoWebToken(blob) ==
    /\ ~Contains(blob, <<"w", "w", "w", ".">>)
    /\ ~Contains(blob, <<"h", "t", "t", "p", ":", "/", "/">>)
    /\ ~Contains(blob, <<"h", "t", "t", "p", "s", ":", "/", "/">>)

LabelledFields ==
    {"primary_contact", "coo", "cfo", "cmo", "cio", "chr", "cno", "control",
     "services"}

FieldLabels ==
    {<<"P", "r", "i", "m", "a", "r", "y", " ", "C", "o", "n", "t", "a", "c",
       "t", ":">>, <<"C", "O", "O", ":">>, <<"C", "F", "O", ":">>, <<"C", "M", "O", ":">>, <<"C", "I", "O", ":">>, <<"C", "H", "R", ":">>,
     <<"C", "N", "O", ":">>, <<"C", "o", "n", "t", "r", "o", "l", ":">>, <<"S", "e", "r", "v", "i", "c", "e", ":">>, <<"W", "e", "b", " ", "a", "d", "d",
                                             "r", "e", "s", "s">>,
     <<"S", "t", "a", "f", "f", "e", "d", " ", "B", "e", "d", "s", ":">>, <<"P", "e", "r", "s", "o", "n", "n", "e", "l", ":">>}

\* C10: in parse_hospital_entry the value of a labelled field (Primary
\* Contact, COO, CFO, CMO, CIO, CHR, CNO, Control, Service) never extends
\* past the next field label that follows its own label in the blob, so no
\* extracted value holds a field label.
C10_LabelTruncation ==
    Returned("parse_hospital_entry") =>
        \A f \in LabelledFields, label \in FieldLabels :
            ~Contains(call.result[f], label)

-----------------------------------------------------------------------------
(* The directory pipeline on lines that detection has to tell apart        *)

\* boilerplate, references and record starts with and without typography
DetectLines ==
    [start  |-> DirLines.start1,
     cont   |-> DirLines.cont,
     footer |-> <<Plain(<<"H", "o", "s", "p", "i", "t", "a", "l", "s", " ",
                          "i", "n", " ", "t", "h", "e", " ", "U", "n", "i",
                          "t", "e", "d", " ", "S", "t", "a", "t", "e", "s">>)>>,
     notice |-> <<Plain(<<"COPY", " ", "2", "0", "2", "6", " ", "A", "H",
                          "A">>)>>,
     plainstart |-> <<Plain(<<"O", "M", "E", "G", "A", " ", "C", "A", "R",
                              "E", " ", "(", "0", "5", "0", "0", "0", "5", ")",
                              ",", " ", "5", " ", "F", "i", "r">>)>>,
     hawaii |-> <<Bold(<<"H", "A", "W", "A", "I", "I">>), Bold(<<"(", "1", "2", "0", "0", "0", "1",
                                           ")">>), Plain(<<",", " ", "1", " ", "E", "l", "m">>)>>,
     alabama |-> <<Bold(<<"A", "L", "A", "B", "A", "M", "A">>), Bold(<<"(", "0", "1", "0", "0", "0", "2",
                                             ")">>), Plain(<<",", " ", "1", " ", "E", "l", "m">>)>>,
     see    |-> <<Bold(<<"G", "A", "M", "M", "A", " ", "C", "A", "R", "E">>), Bold(<<"(", "0", "3", "0", "0", "0", "3",
                                               ")">>),
                  Plain(<<" ", "S", "e", "e", " ", "A", "L", "P", "H", "A",
                          " ", "C", "A", "R", "E">>)>>,
     skipstart |-> <<Bold(<<"D", "E", "L", "T", "A", " ", "C", "A", "R", "E">>), Bold(<<"(", "0", "4", "0", "0", "0", "4",
                                                  ")">>),
                     Plain(<<",", " ", "4", " ", "A", "s", "h", " ", "b",
                             "y", " ", "S", "t", "a", "t", "e">>)>>]

\* the longest page of this specification
MaxDetectLines == 2

DetectDocs ==
    {<<[width |-> 2,
        lines |-> [i \in 1..Len(ks) |->
                      [x |-> 0, y |-> i, spans |-> DetectLines[ks[i]]]]]>> :
        ks \in UNION {[1..n -> DOMAIN DetectLines] : n \in 1..MaxDetectLines}}

InitDetect ==
    /\ doc \in DetectDocs
    /\ pc = "extract"
    /\ ext = NoExt
    /\ text = <<>>
    /\ fnt = NoFnt
    /\ leg = NoLeg
    /\ sec = NoSec
    /\ call = NoCall

SpecDetect == InitDetect /\ [][Next]_vars

\* the text that lines a..b of the stream add to a blob (lines count from
\* 0), boilerplate left out
RECURSIVE BlobTail(_, _, _)
BlobTail(lines, a, b) ==
    IF a > b THEN <<>>
    ELSE (IF IsSkipLine(lines[a + 1]) THEN <<>>
          ELSE <<" ">> \o Strip(lines[a + 1]))
         \o BlobTail(lines, a + 1, b)

\* C12: while a directory record is assembled, a line that matches the
\* skip list of page extraction (skip_patterns) does not end the record and
\* adds no text to the blob.
C12_BoilerplateConsumed ==
    (pc = "assembled" /\ fnt.start >= 0) =>
        /\ fnt.stop < Len(fnt.lines) => ~IsSkipLine(fnt.lines[fnt.stop + 1])
        /\ fnt.entry_text =
              fnt.lines[fnt.start + 1]
                  \o BlobTail(fnt.lines, fnt.start + 1, fnt.stop - 1)

\* what does hold: a line that starts with the copyright mark is consumed
\* and adds no text
C12_NoticeConsumed ==
    (pc = "assembled" /\ fnt.start >= 0) =>
        ~Contains(fnt.entry_text, <<"COPY", " ", "2", "0">>)


\* the lines of the document that extract_text_from_pdf has been through
ScannedLines ==
    UNION {{doc[p].lines[l] :
                    l \in {k \in 1..Len(doc[p].lines) :
                              p < ext.pg \/ (p = ext.pg /\ k < ext.ln)}} :
                p \in 1..Len(doc)}

\* the bold candidate name and the trailing text of a line
Candidate(raw) == ScanSpans(NoSpans, raw.spans)

\* a hospital entry was produced for the line
DetectedAt(raw) ==
    \E k \in 1..Len(ext.hospital_entries) :
        /\ ext.hospital_entries[k].line_text
              = normalize_text(JoinSpans(raw.spans))
        /\ ext.hospital_entries[k].y = raw.y

\* the names that the parsers recognize as state headers
HeaderLabels == {DirectoryStates[i] : i \in 1..NumDirectoryStates}

\* C13: in typography detection a line whose bold candidate name is a
\* state name of the state-header vocabulary, or whose non-bold trailing
\* text begins with "See ", produces no hospital entry, with or without a
\* bold six-digit number.
C13_ReferencesRejected ==
    \A raw \in ScannedLines :
        (\/ Candidate(raw).bold_name \in HeaderLabels
         \/ StartsWith(Strip(Candidate(raw).rest_text), <<"S", "e", "e", " ">>))
            => ~DetectedAt(raw)

\* what does hold: the names of the list of lines 142-143 and the "See "
\* references are rejected
C13_ListedRejected ==
    \A raw \in ScannedLines :
        (\/ Candidate(raw).bold_name \in TypographyStates
         \/ StartsWith(Strip(Candidate(raw).rest_text), <<"S", "e", "e", " ">>))
            => ~DetectedAt(raw)

\* no span of the document carries bold flags or a bold font
NoFontInfo ==
    \A p \in 1..Len(doc) : \A l \in 1..Len(doc[p].lines) :
        \A k \in 1..Len(doc[p].lines[l].spans) :
            ~IsBold(doc[p].lines[l].spans[k])

\* the lines of the stream that have the regex shape of a record start
RecordStarts(lines) ==
    {j \in 1..Len(lines) : ReMatch(HospitalRe, Strip(lines[j])).ok}

\* main (lines 484-487) has its hospitals: the font-detection parser has
\* returned
MainParsed == pc \in {"legacy", "done"}

\* C16: on a document without font information the directory pipeline
\* still yields one Hospital for each line of the regex shape of a record
\* start.
C16_RegexFallback ==
    (MainParsed /\ NoFontInfo) =>
        Len(fnt.hospitals) = Cardinality(RecordStarts(fnt.lines))

\* what does hold: without font information main has no hospitals, and
\* parse_hospitals, which main does not call, would have had one for each
\* record start
C16_NoFallback ==
    /\ (MainParsed /\ NoFontInfo) => fnt.hospitals = <<>>
    /\ (pc = "done" /\ NoFontInfo) =>
            Len(leg.hospitals) = Cardinality(RecordStarts(leg.lines))

\* the lines of the page in hand that extract_text_from_pdf has been through
PageScanned ==
    IF ext.pg > Len(doc) THEN {}
    ELSE {doc[ext.pg].lines[l] :
            l \in {k \in 1..Len(doc[ext.pg].lines) : k < ext.ln}}

\* the directory variant of C18, which holds: a line with a skip pattern
\* goes to its column bucket and produces no hospital entry
C18_DirectorySkip ==
    /\ \A raw \in ScannedLines :
            IsSkipLine(JoinSpans(raw.spans)) => ~DetectedAt(raw)
    /\ pc = "extract" =>
         \A raw \in PageScanned :
            (IsSkipLine(JoinSpans(raw.spans))
                    /\ Strip(JoinSpans(raw.spans)) # <<>>) =>
                \E k \in 1..Len(ext.left_items) :
                    /\ ext.left_items[k].text = JoinSpans(raw.spans)
                    /\ ext.left_items[k].y = raw.y


-----------------------------------------------------------------------------
(* build_entry called on its own                                           *)

\* the dict d with the keys of K only
Restrict(d, K) == [k \in K |-> d[k]]

\* a header as extract_section_b makes it, with and without its section
BuildHeaders ==
    LET hdr == [name |-> <<"A", "C", "M", "E", " ", "H", "E", "A", "L", "T",
                           "H">>, id |-> <<"0", "1", "2", "3">>, type |-> <<"N", "P">>,
                page_num |-> 0, section |-> <<"S", "y", "s", "t", "e", "m", "s">>,
                target |-> <<"s", "y", "s", "t", "e", "m">>, line_idx |-> 0]
    IN  {hdr, Restrict(hdr, DOMAIN hdr \ {"section"})}

\* system-address dicts: complete, partial and empty
BuildAddrs ==
    LET addr == [address |-> <<"1", " ", "M", "a", "i", "n", " ", "S", "t">>, city |-> <<"A", "k", "r", "o", "n">>,
                 state |-> <<"O", "H">>, zip |-> <<"4", "4", "3", "0", "1">>,
                 telephone |-> <<"3", "3", "0", "/", "5", "5", "5", "-", "0",
                                 "1", "0", "0">>, ceo |-> <<"A", "n", "n", " ", "L", "e", "e">>,
                 classification |-> <<"C", "e", "n", "t", "r", "a", "l", "i",
                                      "z", "e", "d", " ", "H", "e", "a", "l",
                                      "t", "h", " ", "S", "y", "s", "t", "e",
                                      "m">>]
    IN  {Restrict(addr, K) : K \in {DOMAIN addr, {"address", "zip"}, {}}}

\* cascade dicts: complete, partial and empty, with and without a state
\* and an abbreviation, one of them not in the table
BuildResults ==
    LET full(state, state_abbrev) ==
            [hospital_name |-> <<"C", "I", "T", "Y", " ", "G", "E", "N", "E",
                                 "R", "A", "L">>, ownership_type |-> <<"O">>,
             staffed_beds |-> <<"1", "2", "0">>, address |-> <<"1", "0", "0", " ", "M", "a", "i",
                                                     "n", " ", "S", "t">>,
             city |-> <<>>, state |-> state, state_abbrev |-> state_abbrev,
             zip_code |-> <<"6", "2", "7", "0", "1">>, telephone |-> <<"2", "1", "7", "/", "5", "5", "5",
                                                     "-", "0", "1", "0", "0">>,
             contact |-> <<"J", "o", " ", "D", "a", "y">>, web_address |-> <<"w", "w", "w", ".", "c", "g", ".",
                                                       "o", "r", "g">>,
             section |-> <<"N", "e", "t", "w", "o", "r", "k", "s">>]
        keys == DOMAIN full(<<>>, <<>>)
    IN  {Restrict(full(state, state_abbrev), K) :
            state \in {<<>>, <<"O", "H", "I", "O">>},
            state_abbrev \in {<<>>, <<"I", "L">>, <<"O", "H">>, <<"Z", "Z">>},
            K \in {keys, keys \ {"state"}, keys \ {"state_abbrev", "section"},
                   {"hospital_name"}, {}}}

InitBuild ==
    /\ pc = "call"
    /\ \E hdr \in BuildHeaders, addr \in BuildAddrs, result \in BuildResults :
            call = [fn |-> "build_entry",
                    arg |-> [hdr |-> hdr, addr |-> addr, result |-> result],
                    result |-> <<>>]
    /\ doc = <<>>
    /\ ext = NoExt
    /\ text = <<>>
    /\ fnt = NoFnt
    /\ leg = NoLeg
    /\ sec = NoSec

NextBuild == CallBuildEntry

SpecBuild == InitBuild /\ [][NextBuild]_vars

\* the value of key k of dict d, empty if d has no key k
Default(d, k) == IF k \in DOMAIN d THEN d[k] ELSE <<>>

\* the entity fields that come from the system-address dict
AddrFields ==
    [system_classification |-> "classification",
     system_address |-> "address", system_city |-> "city",
     system_state |-> "state", system_zip |-> "zip",
     system_telephone |-> "telephone", system_ceo |-> "ceo"]

\* the entity fields that are copied from the cascade dict as they are
CascadeFields ==
    {"hospital_name", "ownership_type", "staffed_beds", "address", "city",
     "state_abbrev", "zip_code", "telephone", "contact", "web_address"}

\* the state names that the table STATE_ABBREVS has for an abbreviation
NamesOf(abbrev) ==
    {STATE_ABBREVS[i][1] :
        i \in {j \in 1..Len(STATE_ABBREVS) : STATE_ABBREVS[j][2] = abbrev}}

\* C15: build_entry copies the header metadata, the system-address values
\* and the cascade values as they are, gives the empty string to every
\* absent field, and takes the state name from the abbreviation table only
\* when the state is empty and the abbreviation is not; a non-empty state
\* stays.
C15_BuildEntry ==
    Returned("build_entry") =>
        LET hdr == call.arg.hdr
            addr == call.arg.addr
            result == call.arg.result
            entry == call.result
            state == Default(result, "state")
            state_abbrev == Default(result, "state_abbrev")
        IN  /\ entry.healthcare_system = hdr.name
            /\ entry.system_id = hdr.id
            /\ entry.system_type = hdr.type
            /\ \A f \in DOMAIN AddrFields :
                    entry[f] = Default(addr, AddrFields[f])
            /\ \A f \in CascadeFields : entry[f] = Default(result, f)
            /\ entry.section = IF "section" \in DOMAIN result
                               THEN result.section
                               ELSE Default(hdr, "section")
            /\ state # <<>> => entry.state = state
            /\ (state = <<>> /\ state_abbrev = <<>>) => entry.state = <<>>
            /\ (state = <<>> /\ state_abbrev # <<>>) =>
                    IF NamesOf(state_abbrev) = {} THEN entry.state = <<>>
                    ELSE entry.state \in NamesOf(state_abbrev)

\* build_entry has returned an entity whose state comes from the table,
\* with absent system-address fields left empty
C15_Witness ==
    /\ Returned("build_entry")
    /\ Default(call.arg.result, "state") = <<>>
    /\ Default(call.arg.result, "state_abbrev") = <<"I", "L">>
    /\ call.result.state = <<"I", "L", "L", "I", "N", "O", "I", "S">>
    /\ "ceo" \notin DOMAIN call.arg.addr
    /\ call.result.system_ceo = <<>>

-----------------------------------------------------------------------------
(* Section B from the pages to the entries                                 *)

\* a span with its size, in tenths of a point
Sized(span, size) == [text |-> span.text, flags |-> span.flags,
                      font |-> span.font, size |-> size]

\* the lines that a Section B page is made of: a system header, a hospital
\* under a state header, a hospital, a network header, a network hospital
\* with its telephone, a state header whose candidate has no ownership and
\* bed parenthetical
SectionLines ==
    [syshdr |-> <<Sized(Bold(<<"0", "0", "0", "1", ":", " ", "A", "L", "P",
                               "H", "A", " ", "(", "N", "P", ")">>), 80)>>,
     statehosp |-> <<Sized(Plain(<<"O", "H", "I", "O", ":", " ", "C", "I",
                                   "T", "Y", " ", "(", "O", ",", " ", "1", "2",
                                   " ", "b", "e", "d", "s", ")", " ", "1", " ",
                                   "E", "l", "m", ",", " ", "L", "i", "m", "a",
                                   ",", " ", "O", "H", ",", " ", "Z", "i", "p",
                                   " ", "4", "5", "8", "0", "1">>), 60)>>,
     hosp |-> <<Sized(Plain(<<"K", "E", "N", "T", " ", "(", "L", ",", " ",
                              "9", " ", "b", "e", "d", "s", ")", " ", "3", " ",
                              "A", "s", "h", ",", " ", "K", "e", "n", "t", ",",
                              " ", "Z", "i", "p", " ", "4", "4", "2", "4", "0">>), 60)>>,
     nethdr |-> <<Sized(Bold(<<"G", "A", "M", "M", "A", " ", "N", "E", "T",
                               "W", "O", "R", "K">>), 63)>>,
     nethosp |-> <<Sized(Plain(<<"M", "E", "R", "C", "Y", ",", " ", "5", " ",
                                 "O", "a", "k", ",", " ", "T", "r", "o", "y",
                                 ",", " ", "N", "Y", ",", " ", "Z", "i", "p",
                                 " ", "1", "2", "1", "8", "0", ";", " ", "t",
                                 "e", "l", ".", " ", "5", "/", "5", "-", "1">>), 60)>>,
     noparen |-> <<Sized(Plain(<<"T", "E", "X", "A", "S", ":", " ", "L", "O",
                                 "N", "E", " ", "S", "T", "A", "R">>), 60)>>]

SectionKinds == DOMAIN SectionLines

MaxSectionLines == 3

\* the running header of a page of either kind
RunningLine ==
    [systems |-> <<Plain(<<"S", "y", "s", "t", "e", "m", "s", " ", "/", " ",
                           "A">>)>>,
     networks |-> <<Plain(<<"N", "e", "t", "w", "o", "r", "k", "s", " ", "/",
                            " ", "A">>)>>]

\* the kind of page that a header stands on
PageOfHeader == [syshdr |-> "systems", nethdr |-> "networks"]

\* the kind of the page that line i of the kinds ks stands on: that of the
\* last header up to it; ks opens with a header
PageTypeAt(ks, i) ==
    PageOfHeader[ks[SetMax({j \in 1..i : ks[j] \in DOMAIN PageOfHeader})]]

\* the lines that open a page: the first, and a header of the other kind
PageStarts(ks) ==
    {1} \cup {i \in 2..Len(ks) : PageTypeAt(ks, i) # PageTypeAt(ks, i - 1)}

\* a page of one block and one column: its running header, then its lines
SectionPage(type, ks) ==
    [width |-> 2,
     blocks |-> <<[i \in 1..(Len(ks) + 1) |->
                    IF i = 1 THEN [x |-> 0, y |-> 0, spans |-> RunningLine[type]]
                    ELSE [x |-> 0, y |-> i - 1,
                          spans |-> SectionLines[ks[i - 1]]]]>>]

\* the document whose lines are of the kinds ks: systems pages and networks
\* pages, each opened by a header of its kind
SectionPages(ks) ==
    LET starts == PageStarts(ks)
        first(p) == CHOOSE i \in starts :
                        Cardinality({j \in starts : j < i}) = p - 1
        last(p) == IF p = Cardinality(starts) THEN Len(ks)
                   ELSE first(p + 1) - 1
    IN  [p \in 1..Cardinality(starts) |->
            SectionPage(PageTypeAt(ks, first(p)),
                        SubSeq(ks, first(p), last(p)))]

SectionDocs ==
    {SectionPages(<<opening>> \o ks) :
        opening \in DOMAIN PageOfHeader,
        ks \in UNION {[1..n -> SectionKinds] : n \in 0..MaxSectionLines}}

InitSection ==
    /\ doc \in SectionDocs
    /\ pc = "section"
    /\ ext = NoExt
    /\ text = <<>>
    /\ fnt = NoFnt
    /\ leg = NoLeg
    /\ sec = NoSec
    /\ call = NoCall

NextSection ==
    \/ SectionLine
    \/ SectionNextBlock
    \/ SectionEndPage
    \/ SectionReturn
    \/ SystemsEnter
    \/ SystemsLine
    \/ SystemsLeave
    \/ SystemsReturn
    \/ NetworksEnter
    \/ NetworksLine
    \/ NetworksLeave
    \/ NetworksReturn

\* extract_section_b on the two-page documents of SectionDocs
SpecSection == InitSection /\ [][NextSection]_vars

\* the headers of either kind that extract_section_b has found
AllHeaders ==
    {sec.system_headers[k] : k \in 1..Len(sec.system_headers)}
        \cup {sec.network_headers[k] : k \in 1..Len(sec.network_headers)}

\* the headers of the line stream that lie after header hdr, up to line at
HeadersBetween(hdr, at) ==
    {h \in AllHeaders : hdr.line_idx < h.line_idx /\ h.line_idx <= at}

\* C17: every Section B entity is attributed to the nearest header of either
\* kind that precedes its hospital line: no system or network header lies
\* between the header an entity is parsed under and the line it starts at.
C17_NearestHeader ==
    \A k \in 1..Len(sec.candidates) :
        LET c == sec.candidates[k]
        IN  c.emitted =>
                /\ c.hdr.line_idx < c.at
                /\ HeadersBetween(c.hdr, c.at) = {}

\* what lines 409 and 535 give: the scope of a header ends at the next
\* header of its own kind
C17_SameKind ==
    \A k \in 1..Len(sec.candidates) :
        LET c == sec.candidates[k]
        IN  /\ c.hdr.line_idx < c.at
            /\ \A h \in HeadersBetween(c.hdr, c.at) : h.target # c.hdr.target

\* whether the line text t of page p holds a skip pattern of its variant;
\* in Section B only the systems and networks pages are read
HoldsSkipPattern(p, t) ==
    IF "blocks" \in DOMAIN doc[p]
    THEN classify_page(doc[p]) \in {"systems", "networks"}
            /\ IsSectionSkipLine(t)
    ELSE IsSkipLine(t)

\* C18: in both variants a line that contains a header/footer skip pattern
\* is still placed in its column bucket, so that it occupies a position in
\* the finished Document Line Stream.
C18_SkipLineKept ==
    pc \in {"parse", "systems"} =>
        \A p \in 1..Len(doc) :
            \A i \in 1..Len(PageLines(doc[p])) :
                LET t == JoinSpans(PageLines(doc[p])[i].spans)
                IN  HoldsSkipPattern(p, t) =>
                        \E k \in 1..Len(Stream) :
                            Stream[k] = normalize_text(t)

\* the candidates that parse_systems has parsed
SystemCandidates ==
    {k \in 1..Len(sec.candidates) : sec.candidates[k].hdr.target = "system"}

\* the lines (from 0) after header hdr and up to line at that start with
\* the name of a state and a colon
StateLinesBetween(hdr, at) ==
    {j \in 0..at :
        /\ hdr.line_idx < j
        /\ StatePrefixes(Strip(sec.all_lines[j + 1])) # {}}

\* the state that the last 'STATE:' line between hdr and line at names, or
\* the empty string
StateInScope(hdr, at) ==
    IF StateLinesBetween(hdr, at) = {} THEN <<>>
    ELSE StateFound(Strip(sec.all_lines[SetMax(StateLinesBetween(hdr, at)) + 1]))

\* the fields of an entry that come from the system header and its address
SystemLevel(entry) ==
    <<entry.healthcare_system, entry.system_id, entry.system_type,
      entry.system_address, entry.system_city, entry.system_state,
      entry.system_zip, entry.system_telephone, entry.system_ceo>>

\* the same fields as the header and its address block give them
HeaderLevel(hdr, addr) ==
    <<hdr.name, hdr.id, hdr.type, addr.address, addr.city, addr.state,
      addr.zip, addr.telephone, addr.ceo>>

\* the place (from 1) of header hdr in system_headers
HeaderPlace(hdr) ==
    CHOOSE si \in 1..Len(sec.system_headers) : sec.system_headers[si] = hdr

\* C19: in parse_systems the state context starts empty at every system
\* header: a hospital under header H is parsed in the state of the last
\* 'STATE:' line after H and up to its own line, and in no state if there is
\* none, whatever 'STATE:' lines precede H; and the system-level fields of
\* its entry are those of H and its address block, whatever 'STATE:' lines
\* lie in between.
C19_StateContext ==
    \A k \in SystemCandidates :
        LET c == sec.candidates[k]
        IN  /\ c.state = StateInScope(c.hdr, c.at)
            /\ c.state_abbrev = AbbrevOf(StateInScope(c.hdr, c.at))
            /\ c.entry.state_abbrev = <<>> => c.entry.state = c.state
            /\ SystemLevel(c.entry) =
                 HeaderLevel(c.hdr,
                    parse_system_address_block(
                        sec.all_lines, c.hdr.line_idx + 1,
                        ScopeEnd(sec.all_lines, sec.system_headers,
                                 HeaderPlace(c.hdr))).result)

\* a hospital with a state under one system header, then a hospital without
\* one under the next: the second has no state although a 'STATE:' line
\* precedes its header
C19_Witness ==
    /\ pc = "done"
    /\ Len(sec.system_headers) = 2
    /\ Len(sec.entries) = 2
    /\ sec.candidates[1].hdr = sec.system_headers[1]
    /\ sec.candidates[2].hdr = sec.system_headers[2]
    /\ sec.entries[1].state = <<"O", "H", "I", "O">>
    /\ sec.entries[1].healthcare_system = sec.entries[2].healthcare_system
    /\ sec.entries[2].state = <<>>
    /\ sec.entries[2].hospital_name = <<"K", "E", "N", "T">>

\* the places (from 1) of the stripped candidate text t, after its first
\* character, where an ownership and bed parenthetical stands
ParentheticalsOf(t) ==
    {p \in 2..Len(t) : ReMatch(BedsPattern, SubSeq(t, p, Len(t))).ok}

\* the entries of the candidates that were emitted, in order
EmittedEntries ==
    LET emitted == SelectSeq(sec.candidates, LAMBDA c : c.emitted)
    IN  [k \in 1..Len(emitted) |-> emitted[k].entry]

OwnershipCodes ==
    {<<"O">>, <<"L">>, <<"C">>, <<"S">>, <<"P", "A", "R", "T">>}

\* an entry whose name, ownership and beds are read off the parenthetical
\* that stands at place p of the text t
ReadOffAt(entry, t, p) ==
    /\ entry.hospital_name = Strip(SubSeq(t, 1, p - 1))
    /\ entry.hospital_name # <<>>
    /\ entry.ownership_type \in OwnershipCodes
    /\ StartsWith(SubSeq(t, p, Len(t)),
                  <<"(">> \o entry.ownership_type \o <<",">>)
    /\ entry.staffed_beds # <<>>
    /\ \A i \in 1..Len(entry.staffed_beds) : entry.staffed_beds[i] \in Digit
    /\ Contains(SubSeq(t, p, Len(t)), entry.staffed_beds)

\* C20: every entity that parse_systems emits has section 'Systems', a
\* non-empty hospital_name equal to the text before the ownership and bed
\* parenthetical, an ownership_type among O, L, C, S and PART and a
\* staffed_beds of one or more digits; a candidate whose text holds no such
\* parenthetical gives no entity; and the entities are those candidates.
C20_SystemEntities ==
    /\ sec.entries = EmittedEntries
    /\ \A k \in SystemCandidates :
        LET c == sec.candidates[k]
        IN  c.emitted =>
                /\ c.entry.section = <<"S", "y", "s", "t", "e", "m", "s">>
                /\ ParentheticalsOf(Strip(c.text)) # {}
                /\ ReadOffAt(c.entry, Strip(c.text),
                             SetMin(ParentheticalsOf(Strip(c.text))))

\* a candidate without a parenthetical gave nothing and one with '(O, 12
\* beds)' gave an entity
C20_Witness ==
    /\ pc = "done"
    /\ \E k \in SystemCandidates :
            /\ ~sec.candidates[k].emitted
            /\ ~HasBeds(sec.candidates[k].text)
    /\ \E k \in 1..Len(sec.entries) :
            /\ sec.entries[k].hospital_name = <<"C", "I", "T", "Y">>
            /\ sec.entries[k].ownership_type = <<"O">>
            /\ sec.entries[k].staffed_beds = <<"1", "2">>
            /\ sec.entries[k].section = <<"S", "y", "s", "t", "e", "m", "s">>

-----------------------------------------------------------------------------
(* Either pipeline run twice on one document                               *)

MaxRerunLines == 2

\* the documents that are run twice: the directory pages of DetectDocs and
\* the Section B documents of up to MaxRerunLines lines after the opening
\* header
RerunDocs ==
    DetectDocs \cup
    {SectionPages(<<opening>> \o ks) :
        opening \in DOMAIN PageOfHeader,
        ks \in UNION {[1..n -> SectionKinds] : n \in 0..MaxRerunLines}}

IsSectionDoc == "blocks" \in DOMAIN doc[1]

\* main has its list of entities: hospitals (line 487 of the directory
\* script) or entries (line 907 of the Section B script)
MainDone ==
    IF IsSectionDoc THEN pc = "done"
    ELSE pc = "entry" /\ fnt.en > Len(ext.hospital_entries)
MainOutput == IF IsSectionDoc THEN sec.entries ELSE fnt.hospitals

\* a run that starts with the entity lists of the run before
StaleRun(run) ==
    [ext |-> NoExt, text |-> <<>>,
     fnt |-> [NoFnt EXCEPT !.hospitals = run.fnt.hospitals],
     sec |-> [NoSec EXCEPT !.entries = run.sec.entries]]

\* what a run starts from: every list and string of the functions is a
\* local that is created empty (full_text and hospital_entries, hospitals,
\* all_lines and the header lists, entries), and no module-level name is
\* assigned to after import
FreshRun(run) ==
    [ext |-> NoExt, text |-> <<>>, fnt |-> NoFnt, sec |-> NoSec]

\* main is run a second time on the same document; call keeps the output of
\* the first run
RunAgain ==
    /\ call.fn = "none"
    /\ MainDone
    /\ call' = [fn |-> "main", arg |-> doc, result |-> MainOutput]
    /\ LET run == FreshRun([ext |-> ext, text |-> text, fnt |-> fnt,
                            sec |-> sec])
       IN  /\ ext' = run.ext
           /\ text' = run.text
           /\ fnt' = run.fnt
           /\ sec' = run.sec
    /\ pc' = IF IsSectionDoc THEN "section" ELSE "extract"
    /\ UNCHANGED <<doc, leg>>

InitRerun ==
    /\ doc \in RerunDocs
    /\ pc = IF IsSectionDoc THEN "section" ELSE "extract"
    /\ ext = NoExt
    /\ text = <<>>
    /\ fnt = NoFnt
    /\ leg = NoLeg
    /\ sec = NoSec
    /\ call = NoCall

NextRerun ==
    \/ ExtractLine
    \/ EndPage
    \/ Return
    \/ StartParse
    \/ AssembleEntry
    \/ ParseEntry
    \/ SectionLine
    \/ SectionNextBlock
    \/ SectionEndPage
    \/ SectionReturn
    \/ SystemsEnter
    \/ SystemsLine
    \/ SystemsLeave
    \/ SystemsReturn
    \/ NetworksEnter
    \/ NetworksLine
    \/ NetworksLeave
    \/ NetworksReturn
    \/ RunAgain

\* main of either script, run twice on the documents of RerunDocs
SpecRerun == InitRerun /\ [][NextRerun]_vars

C14_DirectoryAgain ==
    /\ call.fn = "main"
    /\ MainDone
    /\ ~IsSectionDoc
    /\ Len(MainOutput) > 0
    /\ MainOutput = call.result

-----------------------------------------------------------------------------
(* The networks pages from the lines to the entries                        *)

\* the lines that a networks page is made of: a state name, a network
\* header, the address of the network with its telephone, a hospital with a
\* street number, a hospital whose street is an ordinal
NetworkLines ==
    [state |-> <<Sized(Plain(<<"O", "H", "I", "O">>), 60)>>,
     nethdr |-> <<Sized(Bold(<<"G", "A", "M", "M", "A", " ", "N", "E", "T",
                               "W", "O", "R", "K">>), 63)>>,
     addr |-> <<Sized(Plain(<<"1", " ", "E", "l", "m", ",", " ", "L", "i",
                              "m", "a", ",", " ", "O", "H", ",", " ", "Z", "i",
                              "p", " ", "4", "5", "8", "0", "1", ";", " ", "t",
                              "e", "l", ".", " ", "3", "/", "5", "-", "1">>), 60)>>,
     nethosp |-> <<Sized(Plain(<<"M", "E", "R", "C", "Y", ",", " ", "5", " ",
                                 "O", "a", "k", ",", " ", "T", "r", "o", "y",
                                 ",", " ", "N", "Y", ",", " ", "Z", "i", "p",
                                 " ", "1", "2", "1", "8", "0">>), 60)>>,
     ordinal |-> <<Sized(Plain(<<"A", "C", "M", "E", ",", " ", "5", "t", "h",
                                 " ", "A", "v", "e", ",", " ", "T", "r", "o",
                                 "y", ",", " ", "N", "Y", ",", " ", "Z", "i",
                                 "p", " ", "1", "2", "1", "8", "0">>), 60)>>]

NetworkKinds == DOMAIN NetworkLines

MaxNetworkLines == 4

\* the running header of a networks page; it holds the skip pattern
\* 'Networks and' and so stays out of all_lines
NetworksRunningLine ==
    [x |-> 0, y |-> 0,
     spans |-> <<Plain(<<"N", "e", "t", "w", "o", "r", "k", "s", " ", "/",
                         " ", "S", "y", "s", "t", "e", "m", "s", ",", " ", "N",
                         "e", "t", "w", "o", "r", "k", "s", " ", "a", "n", "d",
                         " ", "A", "l", "l", "i", "a", "n", "c", "e", "s">>)>>]

\* a networks page of one block and one column
NetworksPage(ks) ==
    [width |-> 2,
     blocks |-> <<[i \in 1..(Len(ks) + 1) |->
                    IF i = 1 THEN NetworksRunningLine
                    ELSE [x |-> 0, y |-> i - 1,
                          spans |-> NetworkLines[ks[i - 1]]]]>>]

NetworkDocs ==
    {<<NetworksPage(ks)>> :
        ks \in UNION {[1..n -> NetworkKinds] : n \in 1..MaxNetworkLines}}

InitNetworks ==
    /\ doc \in NetworkDocs
    /\ pc = "section"
    /\ ext = NoExt
    /\ text = <<>>
    /\ fnt = NoFnt
    /\ leg = NoLeg
    /\ sec = NoSec
    /\ call = NoCall

NextNetworks ==
    \/ SectionLine
    \/ SectionNextBlock
    \/ SectionEndPage
    \/ SectionReturn
    \/ SystemsReturn
    \/ NetworksEnter
    \/ NetworksLine
    \/ NetworksLeave
    \/ NetworksReturn

\* extract_section_b on the one-page documents of NetworkDocs
SpecNetworks == InitNetworks /\ [][NextNetworks]_vars

\* the candidates that parse_networks has parsed
NetworkCandidates ==
    {k \in 1..Len(sec.candidates) : sec.candidates[k].hdr.target = "network"}

\* whether the text t goes on with a digit after the blanks that follow
\* place p
DigitLedAfter(t, p) ==
    \E q \in (p + 1)..Len(t) :
        /\ t[q] \in Digit
        /\ \A r \in (p + 1)..(q - 1) : t[r] \in Space

\* the places of the stripped blob t, after its first character, where a
\* comma is followed by a digit-led address
AddressCommas(t) ==
    {p \in 2..Len(t) : t[p] = "," /\ DigitLedAfter(t, p)}

\* C21: every entity that parse_networks emits has section 'Networks',
\* system_type 'NET', an empty system_id, an empty ownership_type and an
\* empty staffed_beds, and its hospital_name is the text that precedes the
\* first comma followed by a digit-led address in its blob.
C21_NetworkEntities ==
    \A k \in NetworkCandidates :
        LET c == sec.candidates[k]
        IN  c.emitted =>
                /\ c.entry.section = <<"N", "e", "t", "w", "o", "r", "k",
                                       "s">>
                /\ c.entry.system_type = <<"N", "E", "T">>
                /\ c.entry.system_id = <<>>
                /\ c.entry.ownership_type = <<>>
                /\ c.entry.staffed_beds = <<>>
                /\ AddressCommas(Strip(c.text)) # {}
                /\ c.entry.hospital_name =
                     Strip(SubSeq(Strip(c.text), 1,
                                  SetMin(AddressCommas(Strip(c.text))) - 1))

\* what holds of the entities of parse_networks: the fields that come from
\* the header and the empty ownership and beds
C21_HeaderFields ==
    \A k \in NetworkCandidates :
        LET c == sec.candidates[k]
        IN  c.emitted =>
                /\ c.entry.section = <<"N", "e", "t", "w", "o", "r", "k",
                                       "s">>
                /\ c.entry.system_type = <<"N", "E", "T">>
                /\ c.entry.system_id = <<>>
                /\ c.entry.ownership_type = <<>>
                /\ c.entry.staffed_beds = <<>>
                /\ AddressCommas(Strip(c.text)) # {}

\* the lines (from 0) among from..(to - 1) that are the name of a state
StateNameLines(from, to) ==
    {j \in from..(to - 1) :
        j < Len(sec.all_lines) /\ Strip(sec.all_lines[j + 1]) \in US_STATES}

\* the place (from 1) of header hdr in network_headers
NetworkPlace(hdr) ==
    CHOOSE ni \in 1..Len(sec.network_headers) : sec.network_headers[ni] = hdr

\* the line at which the scan for the hospitals of header hdr starts, after
\* its address lines
HospitalsFrom(hdr) ==
    NetAddrScan(sec.all_lines, hdr.line_idx + 1,
                ScopeEnd(sec.all_lines, sec.network_headers,
                         NetworkPlace(hdr)), <<>>).i

\* the state of the last line of the set at, or the empty string
LastStateOf(at) ==
    IF at = {} THEN <<>> ELSE Strip(sec.all_lines[SetMax(at) + 1])

\* the state context that a hospital at line at under header hdr is due:
\* the last state name met in the scope before it, else the last state name
\* among the lines from..(header - 1)
StateDue(hdr, at, from) ==
    IF StateNameLines(HospitalsFrom(hdr), at) # {}
    THEN LastStateOf(StateNameLines(HospitalsFrom(hdr), at))
    ELSE LastStateOf(StateNameLines(from, hdr.line_idx))

\* C24: in parse_networks the state context of a network starts as the most
\* recent standalone state-name line that precedes the network header
\* anywhere earlier in the line stream, line 0 included, and is empty only
\* if there is none; each standalone state-name line met in the scope of
\* the network then replaces it.
C24_StateBefore ==
    \A k \in NetworkCandidates :
        LET c == sec.candidates[k]
        IN  /\ c.state = StateDue(c.hdr, c.at, 0)
            /\ c.state_abbrev = AbbrevOf(c.state)

\* what lines 584-592 give: the search goes back 29 lines at most and
\* stops before line 0
C24_StateInWindow ==
    \A k \in NetworkCandidates :
        LET c == sec.candidates[k]
        IN  /\ c.state =
                StateDue(c.hdr, c.at,
                         IF c.hdr.line_idx - 30 > 0
                         THEN c.hdr.line_idx - 29 ELSE 1)
            /\ c.state_abbrev = AbbrevOf(c.state)

\* C28: in every Section B entity whose state and state_abbrev are both
\* non-empty, state_abbrev is the abbreviation that STATE_ABBREVS gives for
\* state.
C28_StateAgrees ==
    \A k \in 1..Len(sec.entries) :
        LET entry == sec.entries[k]
        IN  (entry.state # <<>> /\ entry.state_abbrev # <<>>) =>
                entry.state_abbrev = AbbrevOf(entry.state)

-----------------------------------------------------------------------------
(* The systems pages from the lines to the entries                         *)

\* the lines that a systems page is made of: a system header, a hospital,
\* a classification, a hospital name that wraps, the parenthetical and
\* address it wraps to, a summary line, a hospital under a state header
SystemLines ==
    [syshdr |-> <<Sized(Bold(<<"0", "0", "0", "1", ":", " ", "A", "L", "P",
                               "H", "A", " ", "(", "N", "P", ")">>), 80)>>,
     hosp |-> <<Sized(Plain(<<"K", "E", "N", "T", " ", "(", "L", ",", " ",
                              "9", " ", "b", "e", "d", "s", ")", " ", "3", " ",
                              "A", "s", "h", ",", " ", "K", "e", "n", "t", ",",
                              " ", "Z", "i", "p", " ", "4", "4", "2", "4", "0">>), 60)>>,
     class |-> <<Sized(Plain(<<"(", "H", "e", "a", "l", "t", "h", " ", "S",
                               "y", "s", "t", "e", "m", ")">>), 60)>>,
     wrapname |-> <<Sized(Plain(<<"L", "O", "N", "G", " ", "N", "A", "M",
                                  "E", " ", "O", "F">>), 60)>>,
     wrapbeds |-> <<Sized(Plain(<<"(", "C", ",", " ", "5", " ", "b", "e",
                                  "d", "s", ")", " ", "2", " ", "O", "a", "k">>), 60)>>,
     summary |-> <<Sized(Plain(<<"T", "o", "t", "a", "l", "s", ":", " ", "2",
                                 " ", "h", "o", "s", "p", "i", "t", "a", "l",
                                 "s">>), 60)>>,
     statehosp |-> <<Sized(Plain(<<"O", "H", "I", "O", ":", " ", "C", "I",
                                   "T", "Y", " ", "(", "O", ",", " ", "1", "2",
                                   " ", "b", "e", "d", "s", ")", " ", "1", " ",
                                   "E", "l", "m">>), 60)>>]

SystemKinds == DOMAIN SystemLines

MaxSystemLines == 3

\* the running header of a systems page; it holds the skip pattern
\* 'Health Care Systems, Networks and Alliances' and so stays out of
\* all_lines
SystemsRunningLine ==
    [x |-> 0, y |-> 0,
     spans |-> <<Plain(<<"S", "y", "s", "t", "e", "m", "s", " ", "/", " ",
                         "H", "e", "a", "l", "t", "h", " ", "C", "a", "r", "e",
                         " ", "S", "y", "s", "t", "e", "m", "s", ",", " ", "N",
                         "e", "t", "w", "o", "r", "k", "s", " ", "a", "n", "d",
                         " ", "A", "l", "l", "i", "a", "n", "c", "e", "s">>)>>]

\* a systems page of one block and one column that opens with a system
\* header
SystemsPage(ks) ==
    [width |-> 2,
     blocks |-> <<[i \in 1..(Len(ks) + 2) |->
                    IF i = 1 THEN SystemsRunningLine
                    ELSE IF i = 2
                    THEN [x |-> 0, y |-> 1, spans |-> SystemLines.syshdr]
                    ELSE [x |-> 0, y |-> i - 1,
                          spans |-> SystemLines[ks[i - 2]]]]>>]

SystemDocs ==
    {<<SystemsPage(ks)>> :
        ks \in UNION {[1..n -> SystemKinds] : n \in 1..MaxSystemLines}}

InitSystems ==
    /\ doc \in SystemDocs
    /\ pc = "section"
    /\ ext = NoExt
    /\ text = <<>>
    /\ fnt = NoFnt
    /\ leg = NoLeg
    /\ sec = NoSec
    /\ call = NoCall

NextSystems ==
    \/ SectionLine
    \/ SectionNextBlock
    \/ SectionEndPage
    \/ SectionReturn
    \/ SystemsEnter
    \/ SystemsLine
    \/ SystemsLeave
    \/ SystemsReturn
    \/ NetworksReturn

\* extract_section_b on the one-page documents of SystemDocs
SpecSystems == InitSystems /\ [][NextSystems]_vars

\* the ten system-level fields of an entry
SystemFields(entry) ==
    <<entry.healthcare_system, entry.system_id, entry.system_type,
      entry.system_classification, entry.system_address, entry.system_city,
      entry.system_state, entry.system_zip, entry.system_telephone,
      entry.system_ceo>>

\* C27: all entities emitted under the same system header carry identical
\* system-level fields, wherever their hospital line stands in the scope
\* of the header.
C27_SameSystemFields ==
    \A k, l \in SystemCandidates :
        LET c == sec.candidates[k]
            d == sec.candidates[l]
        IN  (c.emitted /\ d.emitted /\ c.hdr = d.hdr) =>
                SystemFields(c.entry) = SystemFields(d.entry)

\* what holds: the fields other than the classification are identical
C27_SameButClassification ==
    \A k, l \in SystemCandidates :
        LET c == sec.candidates[k]
            d == sec.candidates[l]
        IN  (c.emitted /\ d.emitted /\ c.hdr = d.hdr) =>
                SystemLevel(c.entry) = SystemLevel(d.entry)

\* a state header, a system header, a summary line or a complete hospital
\* line, as the claim names the lines that end a merge
C22_EndsMerge(l) ==
    \/ StatePrefixes(l) # {}
    \/ ReMatch(SystemStartRe, l).ok
    \/ StartsWith(l, <<"O", "w", "n", "e", "d", ",", " ", "l", "e", "a", "s",
                       "e", "d">>)
    \/ StartsWith(l, <<"C", "o", "n", "t", "r", "a", "c", "t", "-", "m", "a",
                       "n", "a", "g", "e", "d">>)
    \/ StartsWith(l, <<"T", "o", "t", "a", "l", "s", ":">>)
    \/ l[1] \in Upper /\ HasBeds(l)

\* the line at i (from 0) of the stream, stripped
C22_LineAt(i) == Strip(sec.all_lines[i + 1])

\* the line at i and the k lines after it, joined by blanks
C22_Merged(i, k) ==
    IF k = 0 THEN C22_LineAt(i)
    ELSE IF k = 1 THEN C22_LineAt(i) \o <<" ">> \o C22_LineAt(i + 1)
    ELSE C22_LineAt(i) \o <<" ">> \o C22_LineAt(i + 1) \o <<" ">>
             \o C22_LineAt(i + 2)

\* the number of following lines, 1 or 2, whose merge with the line at i
\* holds the parenthetical, or 0 if there is no such merge in the scope
C22_MergeCount(i, sys_end) ==
    IF /\ i + 1 < sys_end
       /\ ~C22_EndsMerge(C22_LineAt(i + 1))
       /\ HasBeds(C22_Merged(i, 1))
    THEN 1
    ELSE IF /\ i + 2 < sys_end
            /\ ~C22_EndsMerge(C22_LineAt(i + 1))
            /\ ~C22_EndsMerge(C22_LineAt(i + 2))
            /\ HasBeds(C22_Merged(i, 2))
    THEN 2
    ELSE 0

\* the line at i reaches the hospital test of parse_systems, starts with
\* a capital letter and lacks the parenthetical
C22_OpensWithoutBeds(i) ==
    /\ C22_LineAt(i) # <<>>
    /\ C22_LineAt(i)[1] \in Upper
    /\ ~IsSummaryLine(C22_LineAt(i))
    /\ StatePrefixes(C22_LineAt(i)) = {}
    /\ ~ReMatch(SystemStartRe, C22_LineAt(i)).ok
    /\ ~HasBeds(C22_LineAt(i))

\* the lines from a up to b (from 0, b excluded), each after a blank
RECURSIVE C22_Rest(_, _)
C22_Rest(a, b) ==
    IF a >= b THEN <<>> ELSE <<" ">> \o C22_LineAt(a) \o C22_Rest(a + 1, b)

\* one entity is built from the line at i merged with the k lines after
\* it, and the scan resumes after them
C22_BuiltFrom(i, k, sys_end) ==
    /\ Len(sec'.candidates) = Len(sec.candidates) + 1
    /\ SubSeq(sec'.candidates, 1, Len(sec.candidates)) = sec.candidates
    /\ sec'.candidates[Len(sec'.candidates)].at = i
    /\ sec'.candidates[Len(sec'.candidates)].emitted
    /\ Len(sec'.entries) = Len(sec.entries) + 1
    /\ sec'.i >= i + 1 + k
    /\ sec'.i <= sys_end
    /\ Strip(sec'.candidates[Len(sec'.candidates)].text) =
           Strip(C22_Merged(i, k) \o C22_Rest(i + 1 + k, sec'.i))

\* only the line at i is skipped
C22_Skipped(i) ==
    /\ sec'.candidates = sec.candidates
    /\ sec'.entries = sec.entries
    /\ sec'.i = i + 1

C22_Step ==
    (/\ pc = "systems"
     /\ sec.scan
     /\ sec.i < ScopeEnd(sec.all_lines, sec.system_headers, sec.si)
     /\ C22_OpensWithoutBeds(sec.i)) =>
        IF C22_MergeCount(sec.i, ScopeEnd(sec.all_lines, sec.system_headers,
                                          sec.si)) > 0
        THEN C22_BuiltFrom(sec.i,
                           C22_MergeCount(sec.i,
                                          ScopeEnd(sec.all_lines,
                                                   sec.system_headers,
                                                   sec.si)),
                           ScopeEnd(sec.all_lines, sec.system_headers,
                                    sec.si))
        ELSE C22_Skipped(sec.i)

\* C22: in parse_systems a line that starts with a capital letter and
\* lacks the ownership/bed parenthetical is merged with at most the next
\* two lines, and no further than a state header, a system header, a
\* summary line or a complete hospital line; if the merge holds the
\* parenthetical, exactly one entity is built from the merged text and the
\* scan resumes after the last merged line; if not, only the first line
\* is skipped.
C22_MergeAhead == [][C22_Step]_vars

\* an entity was built from a line without the parenthetical and the two
\* lines after it, and the scan resumed after them
C22_Witness ==
    /\ pc = "systems"
    /\ \E k \in SystemCandidates :
        /\ sec.candidates[k].emitted
        /\ C22_OpensWithoutBeds(sec.candidates[k].at)
        /\ ~HasBeds(C22_Merged(sec.candidates[k].at, 1))
        /\ HasBeds(C22_Merged(sec.candidates[k].at, 2))
        /\ sec.i >= sec.candidates[k].at + 3

-----------------------------------------------------------------------------
(* The two scans to their end                                              *)

MaxParseLines == 2

\* the systems pages of up to MaxParseLines lines after their header and
\* the networks pages of up to MaxParseLines lines after their first
ParseDocs ==
    {<<SystemsPage(ks)>> :
        ks \in UNION {[1..n -> SystemKinds] : n \in 1..MaxParseLines}}
    \cup
    {<<NetworksPage(ks)>> :
        ks \in UNION {[1..n -> NetworkKinds] : n \in 1..(MaxParseLines + 1)}}

InitParse ==
    /\ doc \in ParseDocs
    /\ pc = "section"
    /\ ext = NoExt
    /\ text = <<>>
    /\ fnt = NoFnt
    /\ leg = NoLeg
    /\ sec = NoSec
    /\ call = NoCall

\* a step is left to take: every state before the return satisfies the
\* condition of one of the steps, and the steps are functions of the
\* state that change it (C29_Iteration), so this is
\* ENABLED <<NextSection>>_vars
Scheduled == pc # "done"

\* extract_section_b runs as one thread, statement after statement: a step
\* that can be taken is taken. This is WF_vars(NextSection), with its
\* ENABLED written out as Scheduled.
SpecParse ==
    /\ InitParse
    /\ [][NextSection]_vars
    /\ WF_vars(SectionReturn)
    /\ WF_vars(SystemsReturn)
    /\ WF_vars(NetworksReturn)
    /\ ([]<>(~Scheduled) \/ []<><<NextSection>>_vars)

\* the scope of the header that is being scanned
C29_End ==
    IF pc = "systems"
    THEN ScopeEnd(sec.all_lines, sec.system_headers, sec.si)
    ELSE ScopeEnd(sec.all_lines, sec.network_headers, sec.si)

\* the index after the iteration of the main scan loop that is due
C29_After ==
    IF pc = "systems"
    THEN SystemsIter(sec.all_lines, C29_End, sec.system_headers[sec.si],
                     sec, Strip(sec.all_lines[sec.i + 1])).i
    ELSE NetworksIter(sec.all_lines, C29_End, sec.network_headers[sec.si],
                      sec, Strip(sec.all_lines[sec.i + 1])).i

\* the iteration of a main scan loop that is due moves the index forward
\* and not beyond the scope
C29_Iteration ==
    (pc \in {"systems", "networks"} /\ sec.scan /\ sec.i < C29_End) =>
        (sec.i < C29_After /\ C29_After <= C29_End)

\* each helper, started anywhere in a scope of the stream, returns an
\* index between its start and the end of the scope
C29_Helpers ==
    (pc = "systems" /\ ~sec.scan /\ sec.si = 1) =>
        \A end_idx \in 0..Len(sec.all_lines) :
            \A start_idx \in 0..end_idx :
                /\ parse_system_address_block(sec.all_lines, start_idx,
                                              end_idx).i
                       \in start_idx..end_idx
                /\ collect_hospital_text(sec.all_lines, start_idx,
                                         end_idx).i
                       \in start_idx..end_idx
                /\ collect_network_hospital_text(sec.all_lines, start_idx,
                                                 end_idx).i
                       \in start_idx..end_idx
                /\ SummarySkip(sec.all_lines, start_idx, end_idx)
                       \in start_idx..end_idx
                /\ NetAddrScan(sec.all_lines, start_idx, end_idx, <<>>).i
                       \in start_idx..end_idx

\* C29: parse_systems, parse_networks and their helpers terminate on every
\* finite line stream: every iteration of the main scan loops strictly
\* increases the line index, each helper returns an index between its
\* start and the end of its scope, and the run reaches its return.
C29_Terminates == [](C29_Iteration /\ C29_Helpers) /\ <>(pc = "done")

\* the run has returned after scanning two scopes, and an entity was
\* emitted in the first of them, which ends before the end of the stream
C29_Witness ==
    /\ pc = "done"
    /\ Len(sec.system_headers) >= 2
    /\ \E k \in SystemCandidates :
        /\ sec.candidates[k].emitted
        /\ sec.candidates[k].hdr = sec.system_headers[1]
        /\ sec.candidates[k].at < sec.system_headers[2].line_idx

-----------------------------------------------------------------------------
(* The collection phase on pages of two columns                            *)

\* the lines of a systems page: a header on one line, the first and the
\* second line of a header on two lines, a hospital
CollectLines ==
    [syshdr |-> SystemLines.syshdr,
     open |-> <<Sized(Bold(<<"0", "0", "0", "2", ":", " ", "B", "E", "T",
                             "A">>), 80)>>,
     close |-> <<Sized(Bold(<<"H", "E", "A", "L", "T", "H", " ", "(", "N",
                              "P", ")">>), 80)>>,
     hosp |-> SystemLines.hosp]

CollectKinds == DOMAIN CollectLines

\* the lines of a networks page: a header, an address
CollectNetLines ==
    [nethdr |-> NetworkLines.nethdr,
     addr |-> NetworkLines.addr]

CollectNetKinds == DOMAIN CollectNetLines

MaxCollectLines == 3

\* a page of one block whose line i has the spans of its kind and stands in
\* the left (0) or the right (1) column; the lines of the right column
\* stand in the block from the bottom to the top
CollectPage(running, lines, ks, cs) ==
    [width |-> 2,
     blocks |-> <<[i \in 1..(Len(ks) + 1) |->
                    IF i = 1 THEN running
                    ELSE [x |-> cs[i - 1],
                          y |-> IF cs[i - 1] = 0 THEN i - 1
                                ELSE Len(ks) + 2 - i,
                          spans |-> lines[ks[i - 1]]]]>>]

CollectDocs ==
    UNION {{<<CollectPage(SystemsRunningLine, CollectLines, ks, cs)>> :
                ks \in [1..n -> CollectKinds], cs \in [1..n -> {0, 1}]}
           \cup
           {<<CollectPage(NetworksRunningLine, CollectNetLines, ks, cs)>> :
                ks \in [1..n -> CollectNetKinds], cs \in [1..n -> {0, 1}]} :
           n \in 1..MaxCollectLines}

InitCollect ==
    /\ doc \in CollectDocs
    /\ pc = "section"
    /\ ext = NoExt
    /\ text = <<>>
    /\ fnt = NoFnt
    /\ leg = NoLeg
    /\ sec = NoSec
    /\ call = NoCall

NextCollect ==
    \/ SectionLine
    \/ SectionNextBlock
    \/ SectionEndPage
    \/ SectionReturn

\* the collection phase of extract_section_b on the pages of CollectDocs
SpecCollect == InitCollect /\ [][NextCollect]_vars

\* the stream line t is the line, or the first line, of the header h: a
\* system header line reads 'id: name (type)' or starts 'id: name', a
\* network header line is the name
C30_HeaderLine(t, h) ==
    IF h.target = "system"
    THEN \/ Strip(t) = h.id \o <<":", " ">> \o h.name \o <<" ", "(">> \o h.type \o <<")">>
         \/ /\ StartsWith(Strip(t), h.id \o <<":", " ">>)
            /\ StartsWith(h.id \o <<":", " ">> \o h.name, Strip(t))
    ELSE Strip(t) = h.name

\* the headers of one list stand on their lines, in the order of the stream
C30_InOrder(headers) ==
    /\ \A k \in 1..Len(headers) :
        /\ headers[k].line_idx \in 0..(Len(sec.all_lines) - 1)
        /\ C30_HeaderLine(sec.all_lines[headers[k].line_idx + 1], headers[k])
        /\ headers[k].line_idx < ScopeEnd(sec.all_lines, headers, k)
    /\ \A k, l \in 1..Len(headers) :
        k < l => /\ headers[k].line_idx < headers[l].line_idx
                 /\ ScopeEnd(sec.all_lines, headers, k) <= headers[l].line_idx

\* C30: after the collection phase, the line of the stream at the line_idx
\* of every header is the (first) line of that header, and line_idx is
\* strictly increasing within system_headers and within network_headers,
\* so that the scopes of the headers of one list are non-empty and
\* disjoint.
C30_HeadersOnLines ==
    pc = "systems" =>
        C30_InOrder(sec.system_headers) /\ C30_InOrder(sec.network_headers)

\* two headers were collected from a page, one of them from two lines, and
\* the sort of a column moved lines
C30_Witness ==
    /\ pc = "systems"
    /\ Len(sec.system_headers) >= 2
    /\ \E k \in 1..Len(sec.system_headers) :
        Strip(sec.all_lines[sec.system_headers[k].line_idx + 1])
            = <<"0", "0", "0", "2", ":", " ", "B", "E", "T", "A">>
    /\ \E i, j \in 2..Len(doc[1].blocks[1]) :
        i < j /\ doc[1].blocks[1][j].y < doc[1].blocks[1][i].y

\* the lines of the block of the page
C26_Block == doc[1].blocks[1]

\* the text of line j of the block as it goes to the stream
C26_Text(j) == normalize_text(JoinSpans(C26_Block[j].spans))

\* the texts of the lines s to m of the block, stripped and joined
RECURSIVE C26_Combined(_, _)
C26_Combined(s, m) ==
    IF m <= s THEN Strip(C26_Text(s))
    ELSE C26_Combined(s, m - 1) \o <<" ">> \o Strip(C26_Text(m))

\* the lines s to m of the block are the lines of one header: line s has
\* a bold system span and is no header alone, the lines after it are bold,
\* and the header is complete with line m and not before
C26_HeaderOver(s, m) ==
    /\ classify_page(doc[1]) = "systems"
    /\ s < m
    /\ ~IsSectionSkipLine(JoinSpans(C26_Block[s].spans))
    /\ HasBoldSystemSpan(C26_Block[s].spans)
    /\ \A j \in (s + 1)..m : AheadBold(C26_Block[j].spans)
    /\ \A j \in s..(m - 1) : ~ReMatch(SystemHeaderRe, C26_Combined(s, j)).ok
    /\ ReMatch(SystemHeaderRe, C26_Combined(s, m)).ok

\* line j is a continuation line merged into a matched header
C26_Merged(j) ==
    \E s \in 1..(j - 1) : \E m \in j..Len(C26_Block) : C26_HeaderOver(s, m)

\* line j is due in the stream: it is not blank, no boilerplate, no page
\* number and no continuation line of a matched header
C26_Due(j) ==
    /\ Strip(C26_Text(j)) # <<>>
    /\ ~IsSectionSkipLine(JoinSpans(C26_Block[j].spans))
    /\ ~C26_Merged(j)

\* C26: every non-blank line of a systems or networks page that is neither
\* boilerplate nor a page number appears exactly once in all_lines, except
\* the continuation lines merged into a matched multi-line system header:
\* the stream holds each text as often as the lines that are due hold it.
C26_EachLineOnce ==
    pc = "systems" =>
        \A j \in 1..Len(C26_Block) :
            C26_Due(j) =>
                Cardinality({k \in 1..Len(sec.all_lines) :
                                sec.all_lines[k] = C26_Text(j)})
                    = Cardinality({i \in 1..Len(C26_Block) :
                                    C26_Due(i) /\ C26_Text(i) = C26_Text(j)})

\* line j was examined by a look-ahead that started on a line before it
\* and found no header
C26_Examined(j) ==
    \E s \in 1..(j - 1) :
        /\ classify_page(doc[1]) = "systems"
        /\ HasBoldSystemSpan(C26_Block[s].spans)
        /\ \A i \in (s + 1)..j : AheadBold(C26_Block[i].spans)
        /\ \A m \in s..Len(C26_Block) : ~C26_HeaderOver(s, m)
        /\ ~ReMatch(SystemHeaderRe, Strip(C26_Text(s))).ok

\* what holds: the stream holds each text as often as the lines hold it
\* that are due and were not examined by a look-ahead without a match
C26_OnceUnlessExamined ==
    pc = "systems" =>
        \A j \in 1..Len(C26_Block) :
            Cardinality({k \in 1..Len(sec.all_lines) :
                            sec.all_lines[k] = C26_Text(j)})
                = Cardinality({i \in 1..Len(C26_Block) :
                                /\ C26_Due(i)
                                /\ ~C26_Examined(i)
                                /\ C26_Text(i) = C26_Text(j)})

-----------------------------------------------------------------------------
(* The directory pipeline on records without a number and on records that  *)
(* read alike                                                              *)

\* two city-county headers, a record start with a provider number and two
\* record starts without one
RecordLines ==
    [lima |-> <<Plain(<<"L", "I", "M", "A", "EMDASH", "A", "l", "l", "e",
                        "n", " ", "C", "o", "u", "n", "t", "y">>)>>,
     troy |-> <<Plain(<<"T", "R", "O", "Y", "EMDASH", "M", "i", "a", "m",
                        "i", " ", "C", "o", "u", "n", "t", "y">>)>>,
     start |-> <<Bold(<<"A", "L", "P", "H", "A", " ", "C", "A", "R", "E">>), Bold(<<"(", "0", "1", "0", "0", "0", "1",
                                              ")">>),
                 Plain(<<",", " ", "1", " ", "E", "l", "m">>)>>,
     acme |-> <<Bold(<<"A", "C", "M", "E", " ", "W", "I", "D", "G", "E", "T",
                       "S">>), Plain(<<",", " ", "1", "2", " ", "M", "a",
                                                "i", "n", " ", "S", "t">>)>>,
     naval |-> <<Bold(<<"N", "A", "V", "A", "L", " ", "H", "O", "S", "P",
                        "I", "T", "A", "L">>), Plain(<<",", " ", "5", " ", "D", "o", "c",
                                                   "k", " ", "R", "d">>)>>]

RecordKinds == DOMAIN RecordLines

MaxRecordLines == 4

RecordDocs ==
    {<<[width |-> 2,
        lines |-> [i \in 1..Len(ks) |->
                      [x |-> 0, y |-> i, spans |-> RecordLines[ks[i]]]]]>> :
        ks \in UNION {[1..n -> RecordKinds] : n \in 1..MaxRecordLines}}

InitRecords ==
    /\ doc \in RecordDocs
    /\ pc = "extract"
    /\ ext = NoExt
    /\ text = <<>>
    /\ fnt = NoFnt
    /\ leg = NoLeg
    /\ sec = NoSec
    /\ call = NoCall

\* the directory pipeline on the one-column pages of RecordDocs
SpecRecords == InitRecords /\ [][Next]_vars

\* words that name an institution; the source names none
C23_Keywords ==
    {<<"H", "O", "S", "P", "I", "T", "A", "L">>, <<"M", "E", "D", "I", "C", "A", "L">>, <<"C", "E", "N", "T", "E", "R">>, <<"C", "L", "I", "N", "I", "C">>, <<"H", "E", "A", "L", "T", "H">>,
     <<"I", "N", "F", "I", "R", "M", "A", "R", "Y">>, <<"I", "N", "S", "T", "I", "T", "U", "T", "E">>, <<"A", "R", "M", "Y">>, <<"N", "A", "V", "A", "L">>, <<"N", "A", "V", "Y">>,
     <<"A", "I", "R", " ", "F", "O", "R", "C", "E">>, <<"V", "E", "T", "E", "R", "A", "N", "S">>, <<"I", "N", "D", "I", "A", "N">>, <<"F", "E", "D", "E", "R", "A", "L">>, <<"P", "R", "I", "S", "O", "N">>}

C23_HasKeyword(s) == \E kw \in C23_Keywords : Contains(s, kw)

\* the typography detector: an entry without a number has a keyword in
\* its name
C23_Typography ==
    \A k \in 1..Len(ext.hospital_entries) :
        ext.hospital_entries[k].provider_number = <<>> =>
            C23_HasKeyword(ext.hospital_entries[k].name)

\* parse_hospitals: a hospital without a number has a keyword in its name
C23_ParseHospitals ==
    \A k \in 1..Len(leg.hospitals) :
        leg.hospitals[k].medicare_provider_number = <<>> =>
            C23_HasKeyword(leg.hospitals[k].name)

\* the stop check of the assembler: the line that ends a blob as a record
\* start without a number has a keyword
C23_StopCheck ==
    (/\ pc = "assembled"
     /\ fnt.stop < Len(fnt.lines)
     /\ ~ReMatch(CountyHeaderRe, Strip(fnt.lines[fnt.stop + 1])).ok
     /\ ~ReMatch(NextHospitalRe, Strip(fnt.lines[fnt.stop + 1])).ok) =>
        C23_HasKeyword(fnt.lines[fnt.stop + 1])

\* C23: a directory line without a numeric ID is a record start only if
\* its name holds an institutional keyword and a comma and a
\* digits-then-letters address fragment follow it directly: an all-caps
\* name without such a keyword, followed by a comma and a street address,
\* is no record start for the typography detector, for parse_hospitals or
\* for the stop check of the assembler.
C23_KeywordRequired ==
    C23_Typography /\ C23_ParseHospitals /\ C23_StopCheck

\* what holds: a record start without a number has a name of capitals,
\* digits and punctuation, and a comma, digits, blanks and a letter after
\* it
C23_ShapeOnly ==
    /\ \A k \in 1..Len(ext.hospital_entries) :
        ext.hospital_entries[k].provider_number = <<>> =>
            /\ ReMatch(BoldNameRe, ext.hospital_entries[k].name).ok
            /\ ReSearch(StreetRe, ext.hospital_entries[k].line_text).ok
    /\ \A k \in 1..Len(leg.hospitals) :
        leg.hospitals[k].medicare_provider_number = <<>> =>
            \A c \in 1..Len(leg.hospitals[k].name) :
                leg.hospitals[k].name[c] \in CapsChars

\* the line of the page (from 1) that the k-th entry was detected on
C25_PageLine(k) ==
    CHOOSE j \in 1..Len(doc[1].lines) :
        /\ DetectEntries(doc[1].lines[j]) # <<>>
        /\ Cardinality({i \in 1..j : DetectEntries(doc[1].lines[i]) # <<>>})
               = k

\* C25: in parse_hospitals_from_font_detection the context and the blob of
\* each entity are those of the very line on which typography detection
\* fired, also when the text of that line is found on an earlier line of
\* the stream (the blobs are compared without the blanks at their ends).
C25_OwnLine ==
    pc = "assembled" =>
        /\ fnt.hospital =
               EntryContext([Hospital EXCEPT
                                !.name = ext.hospital_entries[fnt.en].name,
                                !.medicare_provider_number =
                                    ext.hospital_entries[fnt.en]
                                        .provider_number],
                            fnt.state_county_map, C25_PageLine(fnt.en) - 1)
        /\ Strip(fnt.entry_text) =
               Strip(FontEntryText(fnt.lines,
                                   C25_PageLine(fnt.en) - 1).entry_text)

\* what holds: the context and the blob are those of the first line of the
\* stream that holds the text of the line of the entry
C25_FirstLine ==
    pc = "assembled" =>
        /\ fnt.start <= C25_PageLine(fnt.en) - 1
        /\ EntryAt(ext.hospital_entries[fnt.en].line_text,
                   fnt.lines[fnt.start + 1])

=============================================================================
